---- MODULE Spec2Model ----
(***************************************************************************)
(* The video segment timeline editors of the frontend                      *)
(* (MultiSegmentSelector.tsx, VideoSegmentSelector.tsx) and the segment    *)
(* state of the video detail page (videos/[videoId]/page.tsx).             *)
(*                                                                         *)
(* Times are fixed-point numbers in tenths of a second (0.1 s is the       *)
(* finest step the source uses, `duration - 0.1`): 1 s = 10, 5 s = 50.     *)
(* A pointer time that falls between two tenths is rounded down.           *)
(***************************************************************************)
EXTENDS Integers, Sequences, FiniteSets, TLC

VARIABLES
    route,                 \* the page on screen: the video detail page or the new-SOP page
    duration,              \* prop `duration` of both selectors
    \* video detail page
    segments,              \* page state, prop `segments` of MultiSegmentSelector
    hasUnsavedChanges,     \* page state
    saving,                \* page state
    initialSegmentsLoaded, \* page state
    error,                 \* page state
    net,                   \* the page's requests in flight: save and load
    server,                \* the segments the backend holds for the video
    status,                \* page state video?.status, null while video is null
    interval,              \* the interval of the polling effect: the loadVideo it calls
    sop,                   \* the SOP creation dialog and the creation run
    \* MultiSegmentSelector
    currentTime,
    isPlaying,
    isDragging,
    editingLabelId,
    editingLabelValue,
    selectedSegmentId,
    video,                 \* its <video> element: currentTime, paused
    \* VideoSegmentSelector
    vss,                   \* its state: useSegment, startTime, endTime, isPlaying,
                           \* currentTime, isDragging
    vssVideo,              \* its <video> element: currentTime, paused
    form,                  \* new-SOP page state startTime, endTime (both null, or both set)
    \* the browser window
    windowListeners,       \* the events of window for which the selector on screen has
                           \* a listener attached
    \* bookkeeping of the exploration
    lastOp,                \* the handler that ran last and the inputs it was given
    ops                    \* the number of handlers run so far

pageVars == <<segments, hasUnsavedChanges, saving, initialSegmentsLoaded, error, net, server,
              status, interval, sop>>
mssVars == <<currentTime, isPlaying, isDragging, editingLabelId, editingLabelValue,
             selectedSegmentId, video>>
vssVars == <<vss, vssVideo, form>>

vars == <<route, windowListeners, duration, pageVars, mssVars, vssVars, lastOp, ops>>

----------------------------------------------------------------------------
(* Bounds of the model *)

MaxSegments == 2
NumIds == 2
MaxOps == 6

(* Program constants, in tenths of a second *)

MinSegmentLength == 10
AddHalfWindow == 50
JumpToEndOffset == 1

----------------------------------------------------------------------------
(* Values *)

null == "null"

\* the pages of the route
VideoDetailPage == "/videos/[videoId]"
NewSopPage == "/sops/new"
\* the page router.push('/videos') leads to: no selector is mounted
VideosPage == "/videos"

\* generateId returns a base-36 string made from Math.random(); the model
\* keeps NumIds of them.  Nothing in generateId or addSegment compares the
\* new id with the ids in use.
Ids == {"id" \o ToString(n) : n \in 1..NumIds}

\* duration prop: 0.5 s, 3 s, 120 s
Durations == {5, 30, 1200}

\* timelineRef.current (attached once the timeline is rendered) and its
\* getBoundingClientRect()
TimelineRects == {[attached |-> TRUE, left |-> 100, width |-> 24]}

\* e.clientX of the mouse events: left of the timeline, two positions
\* inside it, right of the timeline
ClientXs == {90, 101, 103, 130}

NoDrag == [kind |-> "null", segmentId |-> null, handle |-> null]
PlayheadDrag == [kind |-> "playhead", segmentId |-> null, handle |-> null]
HandleDrag(segmentId, handle) == [kind |-> "handle", segmentId |-> segmentId, handle |-> handle]

\* clientX is kept relative to the left edge of the timeline, whose width is kept too
\* and `written` holds the value the handler assigned to video.currentTime, if any
NoOp ==
    [op |-> "init", id |-> null, handle |-> null, clientX |-> 0, width |-> 0, time |-> 0,
     written |-> {}]

\* Every handler is one step; the exploration stops after MaxOps of them.
Did(opRecord) ==
    /\ ops < MaxOps
    /\ ops' = ops + 1
    /\ lastOp' = opRecord

Min(a, b) == IF a <= b THEN a ELSE b
Max(a, b) == IF a >= b THEN a ELSE b

\* The effect on isDragging of both selectors: while a drag target is set,
\* window has the listeners handleMouseMove and handleMouseUp; the cleanup
\* removes them.
DragListeners_NeverRemoved(dragging) == {"mousemove", "mouseup"}

DragListeners(dragging) == IF dragging THEN {"mousemove", "mouseup"} ELSE {}

\* setIsPlaying(!isPlaying) of togglePlay
Toggled_AlwaysPlaying(playing) == TRUE

Toggled(playing) == ~playing

\* the listener of the element's ended event: setIsPlaying(false)
handleEnded_NoListener(playing) == playing

handleEnded(playing) == FALSE

\* Math.max(0, Math.min(duration, time)) of seekTo
SeekTarget(time) == Max(0, Min(duration, time))

\* The position a media element takes when x is assigned to its currentTime:
\* the element keeps the position within the media.
Seek(x) == Max(0, Min(duration, x))

\* video.play() on an element whose playback has ended starts over from 0
PlayFrom(t) == IF t >= duration THEN 0 ELSE t

SEGMENT_COLORS ==
    <<"#3B82F6", "#10B981", "#F59E0B", "#EF4444", "#8B5CF6", "#EC4899", "#06B6D4", "#84CC16">>

Range(s) == {s[i] : i \in 1..Len(s)}

\* segments.map(s => s.color)
Colors_NoneUsed(segs) == <<>>

Colors(segs) == [i \in 1..Len(segs) |-> segs[i].color]

getNextColor_NoCycle(usedColors) ==
    LET available == SelectSeq(SEGMENT_COLORS, LAMBDA c : c \notin Range(usedColors))
    IN  IF Len(available) > 0 THEN available[1]
        ELSE "undefined"

getNextColor(usedColors) ==
    LET available == SelectSeq(SEGMENT_COLORS, LAMBDA c : c \notin Range(usedColors))
    IN  IF Len(available) > 0 THEN available[1]
        ELSE SEGMENT_COLORS[(Len(usedColors) % Len(SEGMENT_COLORS)) + 1]

\* `Segment ${n}`
DefaultLabel_ZeroBased(n) == "Segment " \o ToString(n - 1)

DefaultLabel(n) == "Segment " \o ToString(n)

\* segments.find(s => s.id === id): the index of the first segment with the
\* id, 0 when there is none
FindIndex(segs, id) ==
    IF \E i \in 1..Len(segs) : segs[i].id = id
    THEN CHOOSE i \in 1..Len(segs) :
            segs[i].id = id /\ \A j \in 1..(i - 1) : segs[j].id # id
    ELSE 0

\* the ids of the segments on screen: every handle and row button carries one
SegmentIds(segs) == {segs[i].id : i \in 1..Len(segs)}

\* Math.max(0, Math.min(rect.width, e.clientX - rect.left)) / rect.width * duration
getPositionFromEvent_NoClamp(rect, clientX, d) ==
    IF ~rect.attached THEN 0
    ELSE ((clientX - rect.left) * d) \div rect.width

getPositionFromEvent(rect, clientX, d) ==
    IF ~rect.attached THEN 0
    ELSE LET x == Max(0, Min(rect.width, clientX - rect.left))
         IN  (x * d) \div rect.width

----------------------------------------------------------------------------
(* The parent's onSegmentsChange: handleSegmentsChange of the page *)

handleSegmentsChange_FlagUntouched(newSegments) ==
    /\ segments' = newSegments
    /\ UNCHANGED <<hasUnsavedChanges, saving, initialSegmentsLoaded, error, net, server,
                   status, interval, sop>>

handleSegmentsChange(newSegments) ==
    /\ segments' = newSegments
    /\ hasUnsavedChanges' = TRUE
    /\ UNCHANGED <<saving, initialSegmentsLoaded, error, net, server, status, interval, sop>>

\* seekTo: video.currentTime = clamp(time); setCurrentTime(video.currentTime)
seekTo(time) ==
    LET t == SeekTarget(time)
    IN  /\ video' = [video EXCEPT !.currentTime = t]
        /\ currentTime' = t

----------------------------------------------------------------------------
(* MultiSegmentSelector handlers *)

NewSegment_NoClamp(id) ==
    [id        |-> id,
     startTime |-> currentTime - AddHalfWindow,
     endTime   |-> currentTime + AddHalfWindow,
     label     |-> DefaultLabel(Len(segments) + 1),
     color     |-> getNextColor(Colors(segments))]

NewSegment(id) ==
    [id        |-> id,
     startTime |-> Max(0, currentTime - AddHalfWindow),
     endTime   |-> Min(duration, currentTime + AddHalfWindow),
     label     |-> DefaultLabel(Len(segments) + 1),
     color     |-> getNextColor(Colors(segments))]

\* addSegment: setSelectedSegmentId(newSegment.id)
SelectionAfterAdd_KeepsSelection(id) == selectedSegmentId

SelectionAfterAdd(id) == id

addSegment ==
    /\ \E id \in Ids :
          /\ handleSegmentsChange(Append(segments, NewSegment(id)))
          /\ selectedSegmentId' = SelectionAfterAdd(id)
          /\ Did([NoOp EXCEPT !.op = "addSegment", !.id = id, !.time = currentTime])
    /\ UNCHANGED <<route, windowListeners, duration, currentTime, isPlaying, isDragging, editingLabelId,
                   editingLabelValue, video, vssVars>>

handleTimelineClick ==
    /\ \E rect \in TimelineRects, clientX \in ClientXs :
          LET time == getPositionFromEvent(rect, clientX, duration)
          IN  /\ seekTo(time)
              /\ Did([NoOp EXCEPT !.op = "handleTimelineClick",
                                  !.clientX = clientX - rect.left,
                                  !.width = rect.width, !.time = time,
                                  !.written = {SeekTarget(time)}])
    /\ UNCHANGED <<route, windowListeners, duration, pageVars, isPlaying, isDragging, editingLabelId,
                   editingLabelValue, selectedSegmentId, vssVars>>

\* segments.map(s => s.id === id ? f(s) : s), where f sets one time field
WithStartTime(segs, id, t) ==
    [i \in 1..Len(segs) |->
        IF segs[i].id = id THEN [segs[i] EXCEPT !.startTime = t] ELSE segs[i]]

WithEndTime(segs, id, t) ==
    [i \in 1..Len(segs) |->
        IF segs[i].id = id THEN [segs[i] EXCEPT !.endTime = t] ELSE segs[i]]

\* handleMouseMove, handle === 'start': the new startTime
DragStart_NoMinLength(segment, time) == Max(0, Min(time, segment.endTime))

DragStart(segment, time) ==
    LET newStart == Min(time, segment.endTime - MinSegmentLength)
    IN  Max(0, newStart)

\* handleMouseMove, handle === 'end': the new endTime
DragEnd_NoMinLength(segment, time) == Min(duration, Max(time, segment.startTime))

DragEnd(segment, time) ==
    LET newEnd == Max(time, segment.startTime + MinSegmentLength)
    IN  Min(duration, newEnd)

\* setSegmentStart: newStart
SetStart(segment) == Min(currentTime, segment.endTime - MinSegmentLength)

\* setSegmentEnd: newEnd
SetEnd(segment) == Max(currentTime, segment.startTime + MinSegmentLength)

\* The row buttons exist for the segments on screen, so the id is in the list.
setSegmentStart ==
    /\ \E id \in SegmentIds(segments) :
          LET segment == segments[FindIndex(segments, id)]
          IN  /\ handleSegmentsChange(WithStartTime(segments, id, SetStart(segment)))
              /\ Did([NoOp EXCEPT !.op = "setSegmentStart", !.id = id,
                                  !.time = currentTime])
    /\ UNCHANGED <<route, windowListeners, duration, mssVars, vssVars>>

setSegmentEnd ==
    /\ \E id \in SegmentIds(segments) :
          LET segment == segments[FindIndex(segments, id)]
          IN  /\ handleSegmentsChange(WithEndTime(segments, id, SetEnd(segment)))
              /\ Did([NoOp EXCEPT !.op = "setSegmentEnd", !.id = id,
                                  !.time = currentTime])
    /\ UNCHANGED <<route, windowListeners, duration, mssVars, vssVars>>

handleSegmentHandleMouseDown ==
    /\ \E segmentId \in SegmentIds(segments), handle \in {"start", "end"} :
          /\ isDragging' = HandleDrag(segmentId, handle)
          /\ windowListeners' = DragListeners(TRUE)
          /\ selectedSegmentId' = segmentId
          /\ Did([NoOp EXCEPT !.op = "handleSegmentHandleMouseDown",
                              !.id = segmentId, !.handle = handle])
    /\ UNCHANGED <<route, duration, pageVars, currentTime, isPlaying, editingLabelId,
                   editingLabelValue, video, vssVars>>

handlePlayheadMouseDown ==
    /\ isDragging' = PlayheadDrag
    /\ windowListeners' = DragListeners(TRUE)
    /\ Did([NoOp EXCEPT !.op = "handlePlayheadMouseDown"])
    /\ UNCHANGED <<route, duration, pageVars, currentTime, isPlaying, editingLabelId,
                   editingLabelValue, selectedSegmentId, video, vssVars>>

\* The window listeners exist only while isDragging is set (the effect at
\* lines 246-255), and the handler returns at once when it is not.
handleMouseMove ==
    /\ "mousemove" \in windowListeners
    /\ isDragging # NoDrag
    /\ \E rect \in TimelineRects, clientX \in ClientXs :
          LET time == getPositionFromEvent(rect, clientX, duration)
              segmentId == isDragging.segmentId
              handle == isDragging.handle
              found == FindIndex(segments, segmentId)
          IN  /\ Did([NoOp EXCEPT !.op = "handleMouseMove", !.id = segmentId,
                                  !.handle = handle,
                                  !.clientX = clientX - rect.left,
                                  !.width = rect.width, !.time = time,
                                  !.written = IF isDragging = PlayheadDrag
                                              THEN {SeekTarget(time)} ELSE {}])
              /\ IF isDragging = PlayheadDrag
                 THEN /\ seekTo(time)
                      /\ UNCHANGED pageVars
                 ELSE IF found = 0
                 THEN UNCHANGED <<pageVars, video, currentTime>>
                 ELSE /\ IF handle = "start"
                         THEN handleSegmentsChange(
                                 WithStartTime(segments, segmentId,
                                               DragStart(segments[found], time)))
                         ELSE handleSegmentsChange(
                                 WithEndTime(segments, segmentId,
                                             DragEnd(segments[found], time)))
                      /\ UNCHANGED <<video, currentTime>>
    /\ UNCHANGED <<route, windowListeners, duration, isPlaying, isDragging, editingLabelId, editingLabelValue,
                   selectedSegmentId, vssVars>>

handleMouseUp ==
    /\ "mouseup" \in windowListeners
    /\ isDragging # NoDrag
    /\ isDragging' = NoDrag
    /\ windowListeners' = DragListeners(FALSE)
    /\ Did([NoOp EXCEPT !.op = "handleMouseUp"])
    /\ UNCHANGED <<route, duration, pageVars, currentTime, isPlaying, editingLabelId,
                   editingLabelValue, selectedSegmentId, video, vssVars>>

\* togglePlay: video.pause() or video.play(); setIsPlaying(!isPlaying)
togglePlay ==
    /\ IF isPlaying
       THEN video' = [video EXCEPT !.paused = TRUE]
       ELSE video' = [currentTime |-> PlayFrom(video.currentTime), paused |-> FALSE]
    /\ isPlaying' = Toggled(isPlaying)
    /\ Did([NoOp EXCEPT !.op = "togglePlay", !.time = video.currentTime])
    /\ UNCHANGED <<route, windowListeners, duration, pageVars, currentTime, isDragging, editingLabelId,
                   editingLabelValue, selectedSegmentId, vssVars>>

jumpToStart ==
    /\ seekTo(0)
    /\ Did([NoOp EXCEPT !.op = "jumpToStart", !.time = 0, !.written = {SeekTarget(0)}])
    /\ UNCHANGED <<route, windowListeners, duration, pageVars, isPlaying, isDragging, editingLabelId,
                   editingLabelValue, selectedSegmentId, vssVars>>

jumpToEnd ==
    /\ seekTo(duration - JumpToEndOffset)
    /\ Did([NoOp EXCEPT !.op = "jumpToEnd", !.time = duration - JumpToEndOffset,
                        !.written = {SeekTarget(duration - JumpToEndOffset)}])
    /\ UNCHANGED <<route, windowListeners, duration, pageVars, isPlaying, isDragging, editingLabelId,
                   editingLabelValue, selectedSegmentId, vssVars>>

\* playSegment: the Play button of a row of the list
playSegment ==
    /\ \E i \in 1..Len(segments) :
          LET segment == segments[i]
          IN  /\ video' = [currentTime |-> PlayFrom(Seek(segment.startTime)),
                           paused |-> FALSE]
              /\ isPlaying' = TRUE
              /\ selectedSegmentId' = segment.id
              /\ Did([NoOp EXCEPT !.op = "playSegment", !.id = segment.id,
                                  !.time = segment.startTime,
                                  !.written = {segment.startTime}])
    /\ UNCHANGED <<route, windowListeners, duration, pageVars, currentTime, isDragging, editingLabelId,
                   editingLabelValue, vssVars>>

\* Positions at which the element reports a timeupdate next: where it is
\* (after a seek, or a play() that started over), or, while it plays, a later
\* position before the end of the media.
MediaTimes ==
    LET cur == video.currentTime
        marks == {getPositionFromEvent(rect, x, duration) :
                     rect \in TimelineRects, x \in ClientXs}
                 \cup {segments[i].endTime : i \in 1..Len(segments)}
    IN  {t \in marks \cup {cur} :
            \/ t = cur /\ currentTime # cur
            \/ ~video.paused /\ cur < t /\ t < duration}

\* The element's position after the listener handleTimeUpdate ran at
\* position t: the listener reads video.currentTime and assigns nothing to it.
handleTimeUpdate_LoopsSelected(t) ==
    LET found == FindIndex(segments, selectedSegmentId)
    IN  IF found > 0 /\ t >= segments[found].endTime
        THEN Seek(segments[found].startTime)
        ELSE t

handleTimeUpdate(t) == t

\* the listener handleTimeUpdate: setCurrentTime(video.currentTime)
mediaTimeUpdate ==
    /\ \E t \in MediaTimes :
          /\ video' = [video EXCEPT !.currentTime = handleTimeUpdate(t)]
          /\ currentTime' = t
          /\ Did([NoOp EXCEPT !.op = "timeupdate", !.time = t])
    /\ UNCHANGED <<route, windowListeners, duration, pageVars, isPlaying, isDragging, editingLabelId,
                   editingLabelValue, selectedSegmentId, vssVars>>

\* Playback reaches the end of the media: the element fires timeupdate, sets
\* paused and fires ended; the listener handleEnded: setIsPlaying(false)
mediaEnded ==
    /\ ~video.paused
    /\ video' = [currentTime |-> duration, paused |-> TRUE]
    /\ currentTime' = duration
    /\ isPlaying' = handleEnded(isPlaying)
    /\ Did([NoOp EXCEPT !.op = "ended", !.time = duration])
    /\ UNCHANGED <<route, windowListeners, duration, pageVars, isDragging, editingLabelId,
                   editingLabelValue, selectedSegmentId, vssVars>>

\* removeSegment: the selection afterwards
SelectionAfterRemove_AlwaysCleared(id) == null

SelectionAfterRemove(id) ==
    IF selectedSegmentId = id THEN null ELSE selectedSegmentId

removeSegment ==
    /\ \E id \in SegmentIds(segments) :
          /\ handleSegmentsChange(SelectSeq(segments, LAMBDA s : s.id # id))
          /\ selectedSegmentId' = SelectionAfterRemove(id)
          /\ Did([NoOp EXCEPT !.op = "removeSegment", !.id = id])
    /\ UNCHANGED <<route, windowListeners, duration, currentTime, isPlaying, isDragging, editingLabelId,
                   editingLabelValue, video, vssVars>>

\* a click on a segment of the timeline or on its row in the list
selectSegment ==
    /\ \E id \in SegmentIds(segments) :
          /\ selectedSegmentId' = id
          /\ Did([NoOp EXCEPT !.op = "setSelectedSegmentId", !.id = id])
    /\ UNCHANGED <<route, windowListeners, duration, pageVars, currentTime, isPlaying, isDragging,
                   editingLabelId, editingLabelValue, video, vssVars>>

\* the edit button of a row whose label is not being edited
startEditingLabel ==
    /\ \E i \in 1..Len(segments) :
          /\ editingLabelId # segments[i].id
          /\ editingLabelId' = segments[i].id
          /\ editingLabelValue' = segments[i].label
          /\ Did([NoOp EXCEPT !.op = "startEditingLabel", !.id = segments[i].id])
    /\ UNCHANGED <<route, windowListeners, duration, pageVars, currentTime, isPlaying, isDragging,
                   selectedSegmentId, video, vssVars>>

\* what the user types into the label input
LabelTexts == {"", " ", "Intro"}

\* the input's onChange; the input exists in the rows whose id is editingLabelId
setEditingLabelValue ==
    /\ editingLabelId \in SegmentIds(segments)
    /\ \E text \in LabelTexts :
          /\ editingLabelValue' = text
          /\ Did([NoOp EXCEPT !.op = "setEditingLabelValue"])
    /\ UNCHANGED <<route, windowListeners, duration, pageVars, currentTime, isPlaying, isDragging,
                   editingLabelId, selectedSegmentId, video, vssVars>>

\* saveLabel: editingLabelValue || `Segment ${segments.indexOf(s) + 1}`, for
\* the segment at index i (1-based here)
SavedLabel_KeepsOld(segs, i, value) == IF value # "" THEN value ELSE segs[i].label

SavedLabel(segs, i, value) == IF value # "" THEN value ELSE DefaultLabel(i)

\* Enter in the input, or the check button of the row; the click on the
\* button goes on to the row, whose onClick selects the segment
saveLabel ==
    /\ editingLabelId \in SegmentIds(segments)
    /\ \E byButton \in BOOLEAN :
          LET id == editingLabelId
          IN  /\ handleSegmentsChange(
                    [i \in 1..Len(segments) |->
                        IF segments[i].id = id
                        THEN [segments[i] EXCEPT
                                 !.label = SavedLabel(segments, i, editingLabelValue)]
                        ELSE segments[i]])
              /\ editingLabelId' = null
              /\ editingLabelValue' = ""
              /\ selectedSegmentId' = IF byButton THEN id ELSE selectedSegmentId
              /\ Did([NoOp EXCEPT !.op = "saveLabel", !.id = id])
    /\ UNCHANGED <<route, windowListeners, duration, currentTime, isPlaying, isDragging, video, vssVars>>

\* Escape in the input, or the cancel button of the row (whose click goes on
\* to the row as well)
cancelEditLabel ==
    /\ editingLabelId \in SegmentIds(segments)
    /\ \E byButton \in BOOLEAN :
          /\ editingLabelId' = null
          /\ editingLabelValue' = ""
          /\ selectedSegmentId' = IF byButton THEN editingLabelId ELSE selectedSegmentId
          /\ Did([NoOp EXCEPT !.op = "cancelEditLabel", !.id = editingLabelId])
    /\ UNCHANGED <<route, windowListeners, duration, pageVars, currentTime, isPlaying, isDragging, video,
                   vssVars>>

----------------------------------------------------------------------------
(* The video detail page: save and reload of the segment list.  The request  *)
(* videosApi.saveSegments and the backend behind it are not part of the      *)
(* sources; they are modelled from the specification: the backend stores the *)
(* tuples it is sent, in order, under ids of its own.                        *)

\* a step of the network or of a promise: not counted as a user operation
Then(opRecord) ==
    /\ lastOp' = opRecord
    /\ ops' = ops

\* the page shows the editor and the Save button unless it shows the error card
\* (line 271), and only for a processed video (line 431)
EditorShown == error = "" /\ status = "processed"

\* segments.map(s => ({start_time, end_time, label, color}))
Payload(segs) ==
    [i \in 1..Len(segs) |->
        [start_time |-> segs[i].startTime, end_time |-> segs[i].endTime,
         label |-> segs[i].label, color |-> segs[i].color]]

\* the backend's record of a saved list
Stored(payload) ==
    [i \in 1..Len(payload) |->
        [id |-> "srv" \o ToString(i), start_time |-> payload[i].start_time,
         end_time |-> payload[i].end_time, title |-> payload[i].label,
         color |-> payload[i].color]]

\* loadVideo: !initialSegmentsLoaded || forceLoadSegments, with the
\* initialSegmentsLoaded of the render the called loadVideo belongs to
LoadsSegments_Always(loaded, force) == TRUE

LoadsSegments(loaded, force) == ~loaded \/ force

\* loadVideo: the local list made from the segments of the response
LoadedSegments(responseSegments) ==
    [i \in 1..Len(responseSegments) |->
        [id |-> responseSegments[i].id,
         startTime |-> responseSegments[i].start_time,
         endTime |-> responseSegments[i].end_time,
         label |-> IF responseSegments[i].title \in {"", null}
                   THEN DefaultLabel(i)
                   ELSE responseSegments[i].title,
         color |-> SEGMENT_COLORS[((i - 1) % Len(SEGMENT_COLORS)) + 1]]]

\* the Save button: shown while there are unsaved changes, disabled while saving
handleSaveSegments ==
    /\ EditorShown
    /\ hasUnsavedChanges
    /\ ~saving
    /\ saving' = TRUE
    /\ net' = [net EXCEPT !.save = "sent", !.payload = Payload(segments)]
    /\ Did([NoOp EXCEPT !.op = "handleSaveSegments"])
    /\ UNCHANGED <<route, windowListeners, duration, status, interval, sop, segments, hasUnsavedChanges, initialSegmentsLoaded,
                   error, server, mssVars, vssVars>>

\* the backend handles the save request, or the request fails
serverSaveSegments ==
    /\ net.save = "sent"
    /\ \/ /\ server' = Stored(net.payload)
          /\ net' = [net EXCEPT !.save = "ok"]
       \/ /\ server' = server
          /\ net' = [net EXCEPT !.save = "failed"]
    /\ Then([NoOp EXCEPT !.op = "serverSaveSegments"])
    /\ UNCHANGED <<route, windowListeners, duration, status, interval, sop, segments, hasUnsavedChanges, saving,
                   initialSegmentsLoaded, error, mssVars, vssVars>>

\* handleSaveSegments after the await: on success up to the request of
\* loadVideo(true), on failure through catch and finally
saveSegmentsSettled ==
    /\ net.save \in {"ok", "failed"}
    /\ IF net.save = "ok"
       THEN /\ hasUnsavedChanges' = FALSE
            /\ net' = [net EXCEPT !.save = "none", !.load = "sent", !.force = TRUE]
            /\ UNCHANGED <<error, saving>>
       ELSE /\ error' = "Failed to save segments"
            /\ saving' = FALSE
            /\ net' = [net EXCEPT !.save = "none"]
            /\ UNCHANGED hasUnsavedChanges
    /\ Then([NoOp EXCEPT !.op = "saveSegmentsSettled"])
    /\ UNCHANGED <<route, windowListeners, duration, status, interval, sop, segments, initialSegmentsLoaded, server, mssVars,
                   vssVars>>

\* the backend answers videosApi.get, or the request fails
serverGet ==
    /\ net.load = "sent"
    /\ \/ net' = [net EXCEPT !.load = "ok", !.response = server]
       \/ net' = [net EXCEPT !.load = "failed"]
    /\ Then([NoOp EXCEPT !.op = "serverGet"])
    /\ UNCHANGED <<route, windowListeners, duration, status, interval, sop, segments, hasUnsavedChanges, saving,
                   initialSegmentsLoaded, error, server, mssVars, vssVars>>

\* loadVideo(true) after the await of videosApi.get: on success the list is
\* rebuilt and the frames are requested; on failure catch, then the finally
\* of handleSaveSegments
loadVideoSettled ==
    /\ net.load \in {"ok", "failed"}
    /\ IF net.load = "ok"
       THEN /\ IF LoadsSegments(initialSegmentsLoaded, net.force)
               THEN /\ segments' = LoadedSegments(net.response)
                    /\ initialSegmentsLoaded' = TRUE
                    /\ hasUnsavedChanges' = FALSE
               ELSE UNCHANGED <<segments, initialSegmentsLoaded, hasUnsavedChanges>>
            /\ net' = [net EXCEPT !.load = "none", !.frames = "sent"]
            /\ UNCHANGED <<error, saving>>
       ELSE /\ error' = "Failed to load video"
            /\ saving' = FALSE
            /\ net' = [net EXCEPT !.load = "none", !.force = FALSE]
            /\ UNCHANGED <<segments, initialSegmentsLoaded, hasUnsavedChanges>>
    /\ Then([NoOp EXCEPT !.op = "loadVideo"])
    /\ UNCHANGED <<route, windowListeners, duration, status, interval, sop, server, mssVars, vssVars>>

\* videosApi.getFrames settles: loadVideo ends, then the finally of
\* handleSaveSegments
getFramesSettled ==
    /\ net.frames = "sent"
    /\ \E ok \in BOOLEAN :
          error' = IF ok THEN error ELSE "Failed to load video"
    /\ saving' = FALSE
    /\ net' = [net EXCEPT !.frames = "none", !.force = FALSE]
    /\ Then([NoOp EXCEPT !.op = "getFrames"])
    /\ UNCHANGED <<route, windowListeners, duration, status, interval, sop, segments, hasUnsavedChanges, initialSegmentsLoaded,
                   server, mssVars, vssVars>>

----------------------------------------------------------------------------
(* The video detail page: the first load, the status polling and Process.   *)
(* State updates made between two awaits are rendered together (React 18,   *)
(* which Next.js 14 runs on), and the effects of that render run with it.   *)

\* the statuses the polling effect polls for
PollingStatuses == {"processing", "metadata_extracted", "scenes_detected"}

\* video.status as the responses of the model carry it
Statuses == {"uploaded", "processing", "scenes_detected", "processed", "error"}

\* at most MaxCalls calls of loadVideo() wait for their response at a time
MaxCalls == 2

\* The polling effect (dependency video?.status) after a render with status
\* st: setInterval with the loadVideo of that render, which closes over that
\* render's initialSegmentsLoaded.
PollingEffect(st, loaded) ==
    IF st \in PollingStatuses THEN {[initialSegmentsLoaded |-> loaded]} ELSE {}

\* a call loadVideo() from `from`, made with the loadVideo of a render whose
\* initialSegmentsLoaded was `loaded`
LoadVideoCall(from, loaded) == [from |-> from, initialSegmentsLoaded |-> loaded]

\* the interval fires: loadVideo()
intervalTick ==
    /\ interval # {}
    /\ Len(net.calls) < MaxCalls
    /\ \E closure \in interval :
          net' = [net EXCEPT !.calls =
                     Append(@, LoadVideoCall("interval", closure.initialSegmentsLoaded))]
    /\ Then([NoOp EXCEPT !.op = "setInterval"])
    /\ UNCHANGED <<route, windowListeners, duration, segments, hasUnsavedChanges, saving,
                   initialSegmentsLoaded, error, server, status, interval, sop, mssVars,
                   vssVars>>

\* Process Video / Retry Processing: await videosApi.process; loadVideo()
handleProcess ==
    /\ error = ""
    /\ status \in {"uploaded", "error"}
    /\ Len(net.calls) < MaxCalls
    /\ \E ok \in BOOLEAN :
          IF ok
          THEN /\ net' = [net EXCEPT !.calls =
                            Append(@, LoadVideoCall("handleProcess", initialSegmentsLoaded))]
               /\ error' = error
          ELSE /\ net' = net
               /\ error' = "Failed to start processing"
    /\ Did([NoOp EXCEPT !.op = "handleProcess"])
    /\ UNCHANGED <<route, windowListeners, duration, segments, hasUnsavedChanges, saving,
                   initialSegmentsLoaded, server, status, interval, sop, mssVars, vssVars>>

\* MultiSegmentSelector is rendered for a processed video only: when the
\* status leaves `processed` it unmounts, and it mounts anew later
MssAfterStatus(st) ==
    IF st = "processed" /\ status = "processed"
    THEN UNCHANGED <<windowListeners, mssVars>>
    ELSE /\ windowListeners' = {}
         /\ currentTime' = 0
         /\ isPlaying' = FALSE
         /\ isDragging' = NoDrag
         /\ editingLabelId' = null
         /\ editingLabelValue' = ""
         /\ selectedSegmentId' = null
         /\ video' = [currentTime |-> 0, paused |-> TRUE]

\* A call loadVideo() gets its response, with the video in status st, or
\* fails: setVideo; the segments only under LoadsSegments; for a processed
\* video the frames are fetched next, which may fail; the polling effect runs
\* again when the status changed.
loadVideoAnswered ==
    /\ \E i \in 1..Len(net.calls), ok \in BOOLEAN, st \in Statuses, framesOk \in BOOLEAN :
          LET call == net.calls[i]
              loads == LoadsSegments(call.initialSegmentsLoaded, FALSE)
              loaded == IF loads THEN TRUE ELSE initialSegmentsLoaded
          IN  /\ net' = [net EXCEPT !.calls =
                            SubSeq(@, 1, i - 1) \o SubSeq(@, i + 1, Len(@))]
              /\ IF ok
                 THEN /\ status' = st
                      /\ IF loads
                         THEN /\ segments' = LoadedSegments(server)
                              /\ hasUnsavedChanges' = FALSE
                         ELSE UNCHANGED <<segments, hasUnsavedChanges>>
                      /\ initialSegmentsLoaded' = loaded
                      /\ error' = IF st = "processed" /\ ~framesOk
                                  THEN "Failed to load video" ELSE error
                      /\ interval' = IF st # status THEN PollingEffect(st, loaded)
                                     ELSE interval
                      /\ MssAfterStatus(st)
                 ELSE /\ error' = "Failed to load video"
                      /\ UNCHANGED <<status, segments, hasUnsavedChanges,
                                     initialSegmentsLoaded, interval, windowListeners,
                                     mssVars>>
              /\ Then([NoOp EXCEPT !.op = "loadVideo()", !.handle = call.from])
    /\ UNCHANGED <<route, duration, saving, server, sop, vssVars>>

----------------------------------------------------------------------------
(* SOP creation: handleCreateSOP of the video detail page and               *)
(* handleCreateFromVideo of the new-SOP page with MultiSegmentSelector.     *)
(* `sop` holds the dialog state (on the new-SOP page only the flag          *)
(* `creating`, kept in creatingSOPs) and the calls of the handler that have *)
(* started, each with the requests it has issued so far.                    *)

\* the new-SOP page that mounts MultiSegmentSelector
NewSopSegmentsPage == "/sops/new (segments)"
\* where router.push leads after a creation
SopsPage == "/sops"
SopPage == "/sops/[sopId]"

\* sopsApi.create({video_id, title: segment.label, ..., start_time, end_time})
CreateRequest(segment) ==
    [api |-> "create", sop |-> 0, title |-> segment.label,
     start_time |-> segment.startTime, end_time |-> segment.endTime]

\* sopsApi.generate(createResponse.data.id, ...): the id is that of the n-th
\* SOP the run created
GenerateRequest(n) ==
    [api |-> "generate", sop |-> n, title |-> "", start_time |-> 0, end_time |-> 0]

\* A call of the handler of `page`: the segments it iterates over (all of
\* the list, or the one of the dialog), the index of the one it is at, the
\* request it awaits, and the requests it has issued.
StartedRun(page, queue, all) ==
    IF Len(queue) = 0
    THEN [page |-> page, queue |-> queue, all |-> all, i |-> 0, pending |-> "none",
          state |-> "done", requests |-> <<>>]
    ELSE [page |-> page, queue |-> queue, all |-> all, i |-> 1, pending |-> "create",
          state |-> "running", requests |-> <<CreateRequest(queue[1])>>]

\* disabled={creatingSOPs} of the dialog's button, disabled={creating || !isValid}
\* of the new-SOP page's
CreateDisabled_Never(creating) == FALSE

CreateDisabled(creating) == creating

\* the dialog is modal: the page behind it takes no input while it is open
PageTakesInput == EditorShown /\ ~sop.showSOPDialog

\* Create SOPs from All Segments (shown for a list that is not empty)
handleCreateAllSOPs ==
    /\ route = VideoDetailPage
    /\ PageTakesInput
    /\ Len(segments) > 0
    /\ sop' = [sop EXCEPT !.sopSegment = <<>>, !.createAllMode = TRUE,
                          !.showSOPDialog = TRUE]
    /\ Did([NoOp EXCEPT !.op = "handleCreateAllSOPs"])
    /\ UNCHANGED <<route, windowListeners, duration, segments, hasUnsavedChanges, saving,
                   initialSegmentsLoaded, error, net, server, status, interval, mssVars,
                   vssVars>>

\* the Create SOP button of a row of the list
handleCreateSOPFromSegment ==
    /\ route = VideoDetailPage
    /\ PageTakesInput
    /\ \E i \in 1..Len(segments) :
          /\ sop' = [sop EXCEPT !.sopSegment = <<segments[i]>>, !.createAllMode = FALSE,
                                !.showSOPDialog = TRUE]
          /\ Did([NoOp EXCEPT !.op = "handleCreateSOPFromSegment", !.id = segments[i].id])
    /\ UNCHANGED <<route, windowListeners, duration, segments, hasUnsavedChanges, saving,
                   initialSegmentsLoaded, error, net, server, status, interval, mssVars,
                   vssVars>>

\* onOpenChange(false): Escape, the close button, a click outside the dialog
closeSOPDialog ==
    /\ route = VideoDetailPage
    /\ EditorShown
    /\ sop.showSOPDialog
    /\ sop' = [sop EXCEPT !.showSOPDialog = FALSE]
    /\ Did([NoOp EXCEPT !.op = "setShowSOPDialog"])
    /\ UNCHANGED <<route, windowListeners, duration, segments, hasUnsavedChanges, saving,
                   initialSegmentsLoaded, error, net, server, status, interval, mssVars,
                   vssVars>>

\* the dialog's button: handleCreateSOP up to its first await
handleCreateSOP ==
    /\ route = VideoDetailPage
    /\ EditorShown
    /\ sop.showSOPDialog
    /\ ~CreateDisabled(sop.creatingSOPs)
    /\ LET run == StartedRun(VideoDetailPage,
                             IF sop.createAllMode THEN segments ELSE sop.sopSegment,
                             sop.createAllMode)
       IN  IF run.state = "done"
           THEN /\ route' = IF run.all THEN SopsPage ELSE route
                /\ sop' = [sop EXCEPT !.runs = Append(@, run), !.creatingSOPs = FALSE,
                                      !.showSOPDialog = FALSE]
           ELSE /\ route' = route
                /\ sop' = [sop EXCEPT !.runs = Append(@, run), !.creatingSOPs = TRUE]
    /\ Did([NoOp EXCEPT !.op = "handleCreateSOP"])
    /\ UNCHANGED <<windowListeners, duration, segments, hasUnsavedChanges, saving,
                   initialSegmentsLoaded, error, net, server, status, interval, mssVars,
                   vssVars>>

\* the Generate button of the new-SOP page in segment mode:
\* handleCreateFromVideo up to its first await; isValid asks for a segment
handleCreateFromVideo ==
    /\ route = NewSopSegmentsPage
    /\ ~CreateDisabled(sop.creatingSOPs)
    /\ Len(segments) > 0
    /\ sop' = [sop EXCEPT !.runs = Append(@, StartedRun(NewSopSegmentsPage, segments, TRUE)),
                          !.creatingSOPs = TRUE]
    /\ Did([NoOp EXCEPT !.op = "handleCreateFromVideo"])
    /\ UNCHANGED <<route, windowListeners, duration, segments, hasUnsavedChanges, saving,
                   initialSegmentsLoaded, error, net, server, status, interval, mssVars,
                   vssVars>>

\* The request a run awaits is answered, or fails.  On success the handler
\* goes on to the next request, or ends with router.push (and, on the video
\* detail page, finally); on failure catch (and finally) run.
sopsApiAnswered ==
    /\ \E r \in 1..Len(sop.runs), ok \in BOOLEAN :
          LET run == sop.runs[r]
              page == run.page
              last == run.i = Len(run.queue)
          IN  /\ run.pending # "none"
              /\ IF ~ok
                 THEN /\ sop' = [sop EXCEPT
                                    !.runs[r] = [run EXCEPT !.pending = "none",
                                                            !.state = "failed"],
                                    !.creatingSOPs = FALSE,
                                    !.showSOPDialog =
                                        IF page = VideoDetailPage THEN FALSE ELSE @]
                      /\ error' = IF page = VideoDetailPage THEN "Failed to create SOP"
                                  ELSE error
                      /\ route' = route
                 ELSE IF run.pending = "create"
                 THEN /\ sop' = [sop EXCEPT
                                    !.runs[r] = [run EXCEPT
                                        !.pending = "generate",
                                        !.requests = Append(@, GenerateRequest(run.i))]]
                      /\ UNCHANGED <<error, route>>
                 ELSE IF ~last
                 THEN /\ sop' = [sop EXCEPT
                                    !.runs[r] = [run EXCEPT
                                        !.i = run.i + 1,
                                        !.pending = "create",
                                        !.requests =
                                            Append(@, CreateRequest(run.queue[run.i + 1]))]]
                      /\ UNCHANGED <<error, route>>
                 ELSE /\ sop' = [sop EXCEPT
                                    !.runs[r] = [run EXCEPT !.pending = "none",
                                                            !.state = "done"],
                                    !.creatingSOPs =
                                        IF page = VideoDetailPage THEN FALSE ELSE @,
                                    !.showSOPDialog =
                                        IF page = VideoDetailPage THEN FALSE ELSE @]
                      /\ route' = IF run.all THEN SopsPage ELSE SopPage
                      /\ error' = error
              /\ Then([NoOp EXCEPT !.op = "sopsApi", !.id = ToString(r),
                                   !.handle = IF ok THEN "ok" ELSE "failed"])
    /\ UNCHANGED <<windowListeners, duration, segments, hasUnsavedChanges, saving,
                   initialSegmentsLoaded, net, server, status, interval, mssVars, vssVars>>

----------------------------------------------------------------------------
(* VideoSegmentSelector, mounted by the new-SOP page *)

\* page state startTime = endTime = null
NoTimes == [set |-> FALSE, startTime |-> 0, endTime |-> 0]

\* the effect `Update parent when segment changes` with the page's
\* handleSegmentChange: setStartTime(start); setEndTime(end)
handleSegmentChange(v) ==
    IF v.useSegment
    THEN [set |-> TRUE, startTime |-> v.startTime, endTime |-> v.endTime]
    ELSE NoTimes

\* prop initialEndTime = {endTime ?? undefined} is falsy when the page's
\* endTime is null or 0
InitialEndTimeFalsy(f) == ~f.set \/ f.endTime = 0

\* the prop initialEndTime as the effect's dependency list compares it
InitialEndTimeProp(f) == IF f.set THEN f.endTime ELSE -1

\* A render of the new-SOP page with the selector: the selector's state, the
\* page's times, the prop duration, and which video is selected.
Render(v, f, d, videoId) == [v |-> v, form |-> f, duration |-> d, selectedVideoId |-> videoId]

\* One commit: the effects whose dependencies differ between the render
\* before (prev) and this one (cur) run, the selector's before the page's,
\* and their state updates make the next render.
\*   selector, [useSegment, startTime, endTime, onSegmentChange]: tells the parent
\*   selector, [duration, initialEndTime]: setEndTime(duration) if !initialEndTime
\*   page, [selectedVideoId]: setStartTime(null); setEndTime(null)
EffectsCommit(prev, cur) ==
    LET parentRuns == <<cur.v.useSegment, cur.v.startTime, cur.v.endTime>>
                        # <<prev.v.useSegment, prev.v.startTime, prev.v.endTime>>
        durationRuns == \/ cur.duration # prev.duration
                        \/ InitialEndTimeProp(cur.form) # InitialEndTimeProp(prev.form)
        resetRuns == cur.selectedVideoId # prev.selectedVideoId
    IN  [cur EXCEPT
            !.v = IF durationRuns /\ InitialEndTimeFalsy(cur.form) /\ cur.duration > 0
                  THEN [cur.v EXCEPT !.endTime = cur.duration]
                  ELSE cur.v,
            !.form = IF resetRuns THEN NoTimes
                     ELSE IF parentRuns THEN handleSegmentChange(cur.v)
                     ELSE cur.form]

\* commits follow each other until a render changes nothing
RECURSIVE EffectsSettled(_, _)
EffectsSettled(prev, cur) ==
    LET next == EffectsCommit(prev, cur)
    IN  IF next = cur THEN cur ELSE EffectsSettled(cur, next)

\* The effects that run after a handler changed the selector's state from
\* vss to v, with the page's times at oldForm.
Settled(v, oldForm) ==
    LET s == EffectsSettled(Render(vss, oldForm, duration, 0),
                            Render(v, oldForm, duration, 0))
    IN  [v |-> s.v, form |-> s.form]

VssSet(v) ==
    /\ vss' = Settled(v, form).v
    /\ form' = Settled(v, form).form

\* the timeline, and with it timelineRef.current, is rendered in segment mode only
VssTimelineRects ==
    IF vss.useSegment THEN TimelineRects
    ELSE {[attached |-> FALSE, left |-> 0, width |-> 0]}

vssGetPositionFromEvent_NoClamp(rect, clientX, d) ==
    IF ~rect.attached THEN 0
    ELSE ((clientX - rect.left) * d) \div rect.width

vssGetPositionFromEvent(rect, clientX, d) ==
    IF ~rect.attached THEN 0
    ELSE LET x == Max(0, Min(rect.width, clientX - rect.left))
         IN  (x * d) \div rect.width

\* seekTo of VideoSegmentSelector, as the new state of the element and the selector
vssSeekTo(time) ==
    LET t == SeekTarget(time)
    IN  /\ vssVideo' = [vssVideo EXCEPT !.currentTime = t]
        /\ VssSet([vss EXCEPT !.currentTime = t])

\* duration_seconds of the videos the page's select offers
VideoDurations == {30, 1200}

\* The select's onChange, setSelectedVideoId, to another video, of duration d:
\* the selector stays mounted and gets the new duration and videoUrl; its
\* <video> element loads the new source.
setSelectedVideoId(d) ==
    LET s == EffectsSettled(Render(vss, form, duration, 0), Render(vss, form, d, 1))
    IN  /\ duration' = d
        /\ vss' = s.v
        /\ form' = s.form
        /\ vssVideo' = [currentTime |-> 0, paused |-> TRUE]
        /\ Did([NoOp EXCEPT !.op = "setSelectedVideoId", !.time = d])
        /\ UNCHANGED <<route, windowListeners, pageVars, mssVars>>

vssSetUseSegment ==
    /\ \E checked \in BOOLEAN :
          /\ checked # vss.useSegment
          /\ VssSet([vss EXCEPT !.useSegment = checked])
          /\ Did([NoOp EXCEPT !.op = "setUseSegment"])
    /\ UNCHANGED <<route, windowListeners, duration, pageVars, mssVars, vssVideo>>

\* togglePlay: useSegment && (video.currentTime < startTime ||
\* video.currentTime >= endTime)
OutsideSegment_EndInside(pos) ==
    vss.useSegment /\ (pos < vss.startTime \/ pos > vss.endTime)

OutsideSegment(pos) ==
    vss.useSegment /\ (pos < vss.startTime \/ pos >= vss.endTime)

vssTogglePlay ==
    /\ IF vss.isPlaying
       THEN vssVideo' = [vssVideo EXCEPT !.paused = TRUE]
       ELSE LET from == IF OutsideSegment(vssVideo.currentTime)
                        THEN Seek(vss.startTime)
                        ELSE vssVideo.currentTime
            IN  vssVideo' = [currentTime |-> PlayFrom(from), paused |-> FALSE]
    /\ VssSet([vss EXCEPT !.isPlaying = Toggled(vss.isPlaying)])
    /\ Did([NoOp EXCEPT !.op = "togglePlay", !.time = vssVideo.currentTime,
                        !.written = IF ~vss.isPlaying /\ OutsideSegment(vssVideo.currentTime)
                                    THEN {vss.startTime} ELSE {}])
    /\ UNCHANGED <<route, windowListeners, duration, pageVars, mssVars>>

\* jumpToStart: seekTo(useSegment ? startTime : 0)
vssJumpToStart ==
    LET time == IF vss.useSegment THEN vss.startTime ELSE 0
    IN  /\ vssSeekTo(time)
        /\ Did([NoOp EXCEPT !.op = "jumpToStart", !.time = time,
                            !.written = {SeekTarget(time)}])
        /\ UNCHANGED <<route, windowListeners, duration, pageVars, mssVars>>

\* jumpToEnd: seekTo(useSegment ? endTime - 0.1 : duration - 0.1)
vssJumpToEnd ==
    LET time == IF vss.useSegment THEN vss.endTime - JumpToEndOffset
                ELSE duration - JumpToEndOffset
    IN  /\ vssSeekTo(time)
        /\ Did([NoOp EXCEPT !.op = "jumpToEnd", !.time = time,
                            !.written = {SeekTarget(time)}])
        /\ UNCHANGED <<route, windowListeners, duration, pageVars, mssVars>>

vssSetCurrentAsStart ==
    /\ vss.useSegment
    /\ VssSet([vss EXCEPT !.startTime = Min(vss.currentTime, vss.endTime - MinSegmentLength)])
    /\ Did([NoOp EXCEPT !.op = "setCurrentAsStart", !.time = vss.currentTime])
    /\ UNCHANGED <<route, windowListeners, duration, pageVars, mssVars, vssVideo>>

vssSetCurrentAsEnd ==
    /\ vss.useSegment
    /\ VssSet([vss EXCEPT !.endTime = Max(vss.currentTime, vss.startTime + MinSegmentLength)])
    /\ Did([NoOp EXCEPT !.op = "setCurrentAsEnd", !.time = vss.currentTime])
    /\ UNCHANGED <<route, windowListeners, duration, pageVars, mssVars, vssVideo>>

\* mouse down on a handle, on the playhead or on the bare timeline (which
\* counts as the playhead)
vssHandleTimelineMouseDown ==
    /\ vss.useSegment
    /\ windowListeners' = DragListeners(TRUE)
    /\ \E type \in {"start", "end", "playhead"}, rect \in VssTimelineRects,
          clientX \in ClientXs :
          LET time == vssGetPositionFromEvent(rect, clientX, duration)
          IN  /\ IF type = "playhead"
                 THEN LET t == SeekTarget(time)
                      IN  /\ vssVideo' = [vssVideo EXCEPT !.currentTime = t]
                          /\ VssSet([vss EXCEPT !.isDragging = type, !.currentTime = t])
                 ELSE /\ VssSet([vss EXCEPT !.isDragging = type])
                      /\ UNCHANGED vssVideo
              /\ Did([NoOp EXCEPT !.op = "handleTimelineMouseDown", !.handle = type,
                                  !.clientX = clientX - rect.left,
                                  !.width = rect.width, !.time = time,
                                  !.written = IF type = "playhead"
                                              THEN {SeekTarget(time)} ELSE {}])
    /\ UNCHANGED <<route, duration, pageVars, mssVars>>

vssHandleMouseMove ==
    /\ "mousemove" \in windowListeners
    /\ vss.isDragging # null
    /\ \E rect \in VssTimelineRects, clientX \in ClientXs :
          LET time == vssGetPositionFromEvent(rect, clientX, duration)
          IN  /\ Did([NoOp EXCEPT !.op = "vssHandleMouseMove",
                                  !.handle = vss.isDragging,
                                  !.clientX = clientX - rect.left,
                                  !.width = rect.width, !.time = time,
                                  !.written = IF vss.isDragging = "playhead"
                                              THEN {SeekTarget(time)} ELSE {}])
              /\ IF vss.isDragging = "start"
                 THEN /\ VssSet([vss EXCEPT !.startTime =
                                    Min(time, vss.endTime - MinSegmentLength)])
                      /\ UNCHANGED vssVideo
                 ELSE IF vss.isDragging = "end"
                 THEN /\ VssSet([vss EXCEPT !.endTime =
                                    Max(time, vss.startTime + MinSegmentLength)])
                      /\ UNCHANGED vssVideo
                 ELSE vssSeekTo(time)
    /\ UNCHANGED <<route, windowListeners, duration, pageVars, mssVars>>

vssHandleMouseUp ==
    /\ "mouseup" \in windowListeners
    /\ vss.isDragging # null
    /\ windowListeners' = DragListeners(FALSE)
    /\ VssSet([vss EXCEPT !.isDragging = null])
    /\ Did([NoOp EXCEPT !.op = "vssHandleMouseUp"])
    /\ UNCHANGED <<route, duration, pageVars, mssVars, vssVideo>>

\* handleTimeUpdate with the element at position t:
\* setCurrentTime(video.currentTime); in segment mode a position at or past
\* endTime is sent back to startTime
vssHandleTimeUpdate_NoLoop(t) ==
    [vss     |-> [vss EXCEPT !.currentTime = t],
     video   |-> [vssVideo EXCEPT !.currentTime = t],
     written |-> {}]

vssHandleTimeUpdate(t) ==
    LET loop == vss.useSegment /\ t >= vss.endTime
    IN  [vss     |-> [vss EXCEPT !.currentTime = t],
         video   |-> [vssVideo EXCEPT !.currentTime =
                         IF loop THEN Seek(vss.startTime) ELSE t],
         written |-> IF loop THEN {vss.startTime} ELSE {}]

\* the times the pointer positions of the model stand for
PointerTimes ==
    {vssGetPositionFromEvent(rect, x, duration) : rect \in TimelineRects, x \in ClientXs}

\* Positions at which the playing element reports a timeupdate next.  The
\* element reports several times a second, so in segment mode playback does
\* not get past endTime unreported.
PlaybackTimes ==
    LET cur == vssVideo.currentTime
        barrier == IF vss.useSegment /\ cur < vss.endTime
                   THEN Min(vss.endTime, duration) ELSE duration
    IN  {t \in PointerTimes \cup {vss.endTime} : cur < t /\ t <= barrier /\ t < duration}

\* the element plays on and fires timeupdate before the end of the media
vssMediaTimeUpdate ==
    /\ ~vssVideo.paused
    /\ \E t \in PlaybackTimes :
          /\ VssSet(vssHandleTimeUpdate(t).vss)
          /\ vssVideo' = vssHandleTimeUpdate(t).video
          /\ Did([NoOp EXCEPT !.op = "timeupdate", !.time = t,
                              !.written = vssHandleTimeUpdate(t).written])
    /\ UNCHANGED <<route, windowListeners, duration, pageVars, mssVars>>

\* Playback reaches the end of the media: the element fires timeupdate, sets
\* paused and fires ended (HTML media elements, "reaches the end of the media
\* resource"); onEnded: setIsPlaying(false).  In segment mode with endTime
\* before the end, playback is sent back before it gets there, unless the
\* position was put on the very end.
vssMediaEnded ==
    /\ ~vssVideo.paused
    /\ \/ ~vss.useSegment
       \/ vss.endTime >= duration
       \/ vssVideo.currentTime >= duration
    /\ LET after == vssHandleTimeUpdate(duration)
       IN  /\ vssVideo' = [after.video EXCEPT !.paused = TRUE]
           /\ VssSet([after.vss EXCEPT !.isPlaying = handleEnded(after.vss.isPlaying)])
           /\ Did([NoOp EXCEPT !.op = "ended", !.time = duration,
                               !.written = after.written])
    /\ UNCHANGED <<route, windowListeners, duration, pageVars, mssVars>>

----------------------------------------------------------------------------
(* Initial states *)

NoRequests ==
    [save |-> "none", load |-> "none", frames |-> "none", force |-> FALSE,
     payload |-> <<>>, response |-> <<>>, calls |-> <<>>]

\* no SOP dialog, no creation run
NoSop ==
    [showSOPDialog |-> FALSE, createAllMode |-> FALSE, sopSegment |-> <<>>,
     creatingSOPs |-> FALSE, runs |-> <<>>]

\* the video is processed, so nothing polls; no SOP dialog is open
PageIdle ==
    /\ status = "processed"
    /\ interval = {}
    /\ sop = NoSop

PageLoaded ==
    /\ segments = <<>>
    /\ hasUnsavedChanges = FALSE
    /\ saving = FALSE
    /\ initialSegmentsLoaded = TRUE
    /\ error = ""
    /\ net = NoRequests
    /\ server = <<>>
    /\ PageIdle

MssMounted ==
    /\ currentTime = 0
    /\ isPlaying = FALSE
    /\ isDragging = NoDrag
    /\ editingLabelId = null
    /\ editingLabelValue = ""
    /\ selectedSegmentId = null
    /\ video = [currentTime |-> 0, paused |-> TRUE]

\* VideoSegmentSelector as the new-SOP page mounts it: no initial times
VssMounted ==
    /\ vss = [useSegment |-> FALSE, startTime |-> 0, endTime |-> duration,
              isPlaying |-> FALSE, currentTime |-> 0, isDragging |-> null]
    /\ vssVideo = [currentTime |-> 0, paused |-> TRUE]
    /\ form = NoTimes

----------------------------------------------------------------------------
(* Spec: the timeline of MultiSegmentSelector on a loaded video detail page, *)
(* starting from an empty segment list                                       *)

Init ==
    /\ route = VideoDetailPage
    /\ duration \in Durations
    /\ PageLoaded
    /\ MssMounted
    /\ VssMounted
    /\ windowListeners = {}
    /\ lastOp = NoOp
    /\ ops = 0

\* the list is kept to MaxSegments segments
AddWithinBound == Len(segments) < MaxSegments /\ addSegment

Next ==
    \/ AddWithinBound
    \/ handleTimelineClick
    \/ setSegmentStart
    \/ setSegmentEnd
    \/ handleSegmentHandleMouseDown
    \/ handlePlayheadMouseDown
    \/ handleMouseMove
    \/ handleMouseUp

Spec == Init /\ [][Next]_vars

----------------------------------------------------------------------------
(* SpecVSS: VideoSegmentSelector with its <video> element *)

NextVSS ==
    \/ vssSetUseSegment
    \/ vssTogglePlay
    \/ vssJumpToStart
    \/ vssJumpToEnd
    \/ vssSetCurrentAsStart
    \/ vssSetCurrentAsEnd
    \/ vssHandleTimelineMouseDown
    \/ vssHandleMouseMove
    \/ vssHandleMouseUp
    \/ vssMediaTimeUpdate
    \/ vssMediaEnded

InitVSS ==
    /\ route = NewSopPage
    /\ duration \in Durations
    /\ PageLoaded
    /\ MssMounted
    /\ VssMounted
    /\ windowListeners = {}
    /\ lastOp = NoOp
    /\ ops = 0

SpecVSS == InitVSS /\ [][NextVSS]_vars

----------------------------------------------------------------------------
(* SpecPointer: the pointer handlers of the selector on screen, either one *)

InitPointer ==
    /\ route \in {VideoDetailPage, NewSopPage}
    /\ duration \in Durations
    /\ PageLoaded
    /\ MssMounted
    /\ VssMounted
    /\ windowListeners = {}
    /\ lastOp = NoOp
    /\ ops = 0

NextPointer ==
    \/ /\ route = VideoDetailPage
       /\ \/ AddWithinBound
          \/ handleTimelineClick
          \/ handleSegmentHandleMouseDown
          \/ handlePlayheadMouseDown
          \/ handleMouseMove
          \/ handleMouseUp
    \/ /\ route = NewSopPage
       /\ \/ vssSetUseSegment
          \/ vssHandleTimelineMouseDown
          \/ vssHandleMouseMove
          \/ vssHandleMouseUp

SpecPointer == InitPointer /\ [][NextPointer]_vars

----------------------------------------------------------------------------
(* SpecPlayback: playback and seeking in either selector, with the          *)
(* operations that move a segment's start                                   *)

MaxPlayOps == 5

MssPlayback ==
    /\ route = VideoDetailPage
    /\ ops < MaxPlayOps
    /\ \/ AddWithinBound
       \/ setSegmentStart
       \/ setSegmentEnd
       \/ togglePlay
       \/ jumpToStart
       \/ jumpToEnd
       \/ playSegment
       \/ handleTimelineClick
       \/ handlePlayheadMouseDown
       \/ handleMouseMove
       \/ handleMouseUp
       \/ mediaTimeUpdate
       \/ mediaEnded

VssPlayback ==
    /\ route = NewSopPage
    /\ ops < MaxPlayOps
    /\ NextVSS

NextPlayback ==
    \/ MssPlayback
    \/ VssPlayback

SpecPlayback == InitPointer /\ [][NextPlayback]_vars

----------------------------------------------------------------------------
(* SpecDrag: the drags of either selector as the window sees them: mouse    *)
(* events go to the listeners attached at the time, and the page may be left *)
(* at any moment                                                             *)

\* a mouse event of window that no listener receives, or that the listener
\* returns from at once
eventIgnored(type) ==
    /\ type \notin windowListeners
    /\ Did([NoOp EXCEPT !.op = type])
    /\ UNCHANGED <<route, windowListeners, duration, pageVars, mssVars, vssVars>>

windowMouseMove ==
    \/ route = VideoDetailPage /\ handleMouseMove
    \/ route = NewSopPage /\ vssHandleMouseMove
    \/ eventIgnored("mousemove")

windowMouseUp ==
    \/ route = VideoDetailPage /\ handleMouseUp
    \/ route = NewSopPage /\ vssHandleMouseUp
    \/ eventIgnored("mouseup")

\* The page is left (Back to Videos): the selector unmounts and the cleanup
\* of the listener effect runs.
unmount ==
    /\ route \in {VideoDetailPage, NewSopPage}
    /\ route' = VideosPage
    /\ windowListeners' = {}
    /\ Did([NoOp EXCEPT !.op = "unmount"])
    /\ UNCHANGED <<duration, pageVars, mssVars, vssVars>>

MssDrag ==
    /\ route = VideoDetailPage
    /\ \/ AddWithinBound
       \/ handleTimelineClick
       \/ handleSegmentHandleMouseDown
       \/ handlePlayheadMouseDown

VssDrag ==
    /\ route = NewSopPage
    /\ \/ vssSetUseSegment
       \/ vssHandleTimelineMouseDown

NextDrag ==
    \/ MssDrag
    \/ VssDrag
    \/ windowMouseMove
    \/ windowMouseUp
    \/ unmount

SpecDrag == InitPointer /\ [][NextDrag]_vars

----------------------------------------------------------------------------
(* SpecList: the segment list of MultiSegmentSelector on a 120 s video: add, *)
(* remove, select, relabel, with the playhead left at 0                      *)

InitList ==
    /\ route = VideoDetailPage
    /\ duration = 1200
    /\ PageLoaded
    /\ MssMounted
    /\ VssMounted
    /\ windowListeners = {}
    /\ lastOp = NoOp
    /\ ops = 0

NextList ==
    \/ AddWithinBound
    \/ removeSegment
    \/ selectSegment
    \/ startEditingLabel
    \/ setEditingLabelValue
    \/ saveLabel
    \/ cancelEditLabel

SpecList == InitList /\ [][NextList]_vars

----------------------------------------------------------------------------
(* SpecPage: the video detail page of a 120 s video: the list is edited,     *)
(* saved and reloaded                                                        *)

PageAdd == EditorShown /\ AddWithinBound

PageRemove == EditorShown /\ removeSegment

NextPage ==
    \/ PageAdd
    \/ PageRemove
    \/ handleSaveSegments
    \/ serverSaveSegments
    \/ saveSegmentsSettled
    \/ serverGet
    \/ loadVideoSettled
    \/ getFramesSettled

SpecPage == InitList /\ [][NextPage]_vars

----------------------------------------------------------------------------
(* SpecColor: colours on Add, on a page that has loaded a saved list of up   *)
(* to MaxLoaded segments                                                     *)

MaxLoaded == 9
MaxColorOps == 3

\* a list as the backend holds it after a save of n segments added at playhead 0
SavedList(n) ==
    Stored([i \in 1..n |->
        [start_time |-> 0, end_time |-> AddHalfWindow, label |-> DefaultLabel(i),
         color |-> SEGMENT_COLORS[((i - 1) % Len(SEGMENT_COLORS)) + 1]]])

InitColor ==
    /\ route = VideoDetailPage
    /\ duration = 1200
    /\ \E n \in 0..MaxLoaded :
          /\ server = SavedList(n)
          /\ segments = LoadedSegments(server)
    /\ hasUnsavedChanges = FALSE
    /\ saving = FALSE
    /\ initialSegmentsLoaded = TRUE
    /\ error = ""
    /\ net = NoRequests
    /\ PageIdle
    /\ MssMounted
    /\ VssMounted
    /\ windowListeners = {}
    /\ lastOp = NoOp
    /\ ops = 0

ColorAdd == ops < MaxColorOps /\ addSegment

ColorRemove == ops < MaxColorOps /\ removeSegment

NextColor ==
    \/ ColorAdd
    \/ ColorRemove

SpecColor == InitColor /\ [][NextColor]_vars

----------------------------------------------------------------------------
(* SpecEdit: the video detail page of a 120 s video with every operation of *)
(* the editor and the save, on a page that has loaded a saved list of up to *)
(* MaxSaved segments                                                        *)

MaxSaved == 1
MaxEditOps == 3

InitEdit ==
    /\ route = VideoDetailPage
    /\ duration = 1200
    /\ \E n \in 0..MaxSaved :
          /\ server = SavedList(n)
          /\ segments = LoadedSegments(server)
    /\ hasUnsavedChanges = FALSE
    /\ saving = FALSE
    /\ initialSegmentsLoaded = TRUE
    /\ error = ""
    /\ net = NoRequests
    /\ PageIdle
    /\ MssMounted
    /\ VssMounted
    /\ windowListeners = {}
    /\ lastOp = NoOp
    /\ ops = 0

\* the operations of MultiSegmentSelector
EditorOp ==
    /\ EditorShown
    /\ ops < MaxEditOps
    /\ \/ AddWithinBound
       \/ removeSegment
       \/ selectSegment
       \/ startEditingLabel
       \/ setEditingLabelValue
       \/ saveLabel
       \/ cancelEditLabel
       \/ setSegmentStart
       \/ setSegmentEnd
       \/ handleTimelineClick
       \/ handleSegmentHandleMouseDown
       \/ handlePlayheadMouseDown
       \/ handleMouseMove
       \/ handleMouseUp
       \/ togglePlay
       \/ jumpToStart
       \/ jumpToEnd
       \/ playSegment
       \/ mediaTimeUpdate
       \/ mediaEnded

\* the Save button and what follows from it
SaveStep ==
    \/ ops < MaxEditOps /\ handleSaveSegments
    \/ serverSaveSegments
    \/ saveSegmentsSettled
    \/ serverGet
    \/ loadVideoSettled
    \/ getFramesSettled

NextEdit ==
    \/ EditorOp
    \/ SaveStep

SpecEdit == InitEdit /\ [][NextEdit]_vars

----------------------------------------------------------------------------
(* SpecPoll: the video detail page of a 120 s video from its mount: the     *)
(* first load, polling while the video is processed, Process and Retry, and *)
(* the editing and saving of the list once the editor is shown              *)

InitPoll ==
    /\ route = VideoDetailPage
    /\ duration = 1200
    /\ \E n \in 0..MaxSaved : server = SavedList(n)
    /\ segments = <<>>
    /\ hasUnsavedChanges = FALSE
    /\ saving = FALSE
    /\ initialSegmentsLoaded = FALSE
    /\ error = ""
    /\ net = [NoRequests EXCEPT !.calls = <<LoadVideoCall("mount", FALSE)>>]
    /\ status = null
    /\ interval = {}
    /\ sop = NoSop
    /\ MssMounted
    /\ VssMounted
    /\ windowListeners = {}
    /\ lastOp = NoOp
    /\ ops = 0

MaxPollOps == 2

\* what the user does on the page
PollUserOp ==
    /\ ops < MaxPollOps
    /\ \/ handleProcess
       \/ PageAdd
       \/ PageRemove
       \/ handleSaveSegments

NextPoll ==
    \/ PollUserOp
    \/ loadVideoAnswered
    \/ intervalTick
    \/ serverSaveSegments
    \/ saveSegmentsSettled
    \/ serverGet
    \/ loadVideoSettled
    \/ getFramesSettled

SpecPoll == InitPoll /\ [][NextPoll]_vars

----------------------------------------------------------------------------
(* SpecVideo: the new-SOP page with VideoSegmentSelector, the user going    *)
(* from one video of the select to another                                  *)

MaxVideoOps == 5

InitVideo ==
    /\ route = NewSopPage
    /\ duration \in VideoDurations
    /\ PageLoaded
    /\ MssMounted
    /\ VssMounted
    /\ windowListeners = {}
    /\ lastOp = NoOp
    /\ ops = 0

selectVideo ==
    /\ ops < MaxVideoOps
    /\ \E d \in VideoDurations : setSelectedVideoId(d)

SelectorOp ==
    /\ ops < MaxVideoOps
    /\ NextVSS

NextVideo ==
    \/ selectVideo
    \/ SelectorOp

SpecVideo == InitVideo /\ [][NextVideo]_vars

----------------------------------------------------------------------------
(* SpecSop: SOP creation from the segments of a 120 s video, on the video   *)
(* detail page (through the dialog) and on the new-SOP page with            *)
(* MultiSegmentSelector; the list is built and edited with Add and Remove   *)

MaxSopOps == 5

InitSop ==
    /\ route \in {VideoDetailPage, NewSopSegmentsPage}
    /\ duration = 1200
    /\ PageLoaded
    /\ MssMounted
    /\ VssMounted
    /\ windowListeners = {}
    /\ lastOp = NoOp
    /\ ops = 0

\* the selector takes input on the new-SOP page at any time, on the video
\* detail page while no dialog is open
SelectorTakesInput ==
    \/ route = NewSopSegmentsPage
    \/ route = VideoDetailPage /\ PageTakesInput

SopEdit ==
    /\ ops < MaxSopOps
    /\ SelectorTakesInput
    /\ \/ AddWithinBound
       \/ removeSegment
       \/ jumpToEnd

SopDialog ==
    /\ ops < MaxSopOps
    /\ \/ handleCreateAllSOPs
       \/ handleCreateSOPFromSegment
       \/ closeSOPDialog

SopCreate ==
    /\ ops < MaxSopOps
    /\ \/ handleCreateSOP
       \/ handleCreateFromVideo

NextSop ==
    \/ SopEdit
    \/ SopDialog
    \/ SopCreate
    \/ sopsApiAnswered

SpecSop == InitSop /\ [][NextSop]_vars

----------------------------------------------------------------------------
(* Claims checked under Spec *)

ValidSegment(seg) ==
    /\ 0 <= seg.startTime
    /\ seg.startTime < seg.endTime
    /\ seg.endTime <= duration
    /\ seg.endTime - seg.startTime >= MinSegmentLength

\* C1: for any positive duration, after any sequence of Add, handle drags and
\* set-start/end-to-current from the empty list, every segment satisfies
\* 0 <= startTime < endTime <= duration and endTime - startTime >= 1 s.
C1_SegmentInvariant ==
    \A i \in 1..Len(segments) : ValidSegment(segments[i])

C3_AddAppends ==
    [][lastOp'.op = "addSegment" =>
        /\ Len(segments') = Len(segments) + 1
        /\ SubSeq(segments', 1, Len(segments)) = segments
        /\ segments'[Len(segments')].startTime = Max(0, currentTime - 50)
        /\ segments'[Len(segments')].endTime = Min(duration, currentTime + 50)
        /\ (duration = 1200 /\ currentTime = 0) =>
              /\ segments'[Len(segments')].startTime = 0
              /\ segments'[Len(segments')].endTime = 50
       ]_vars

\* duration 120 s, playhead 0, one segment in the list: Add appends {0, 5 s}
C3_Witness ==
    /\ lastOp.op = "addSegment"
    /\ duration = 1200
    /\ lastOp.time = 0
    /\ Len(segments) = 2
    /\ segments[2].startTime = 0
    /\ segments[2].endTime = 50
    /\ segments[1].startTime = 100

\* C9: set-start-to-current and set-end-to-current leave the list exactly as
\* a drag-move of the same handle to pointer-time = currentTime would.
C9_SetEqualsDrag ==
    [][(lastOp'.op \in {"setSegmentStart", "setSegmentEnd"}) =>
        LET id == lastOp'.id
            segment == segments[FindIndex(segments, id)]
        IN  segments' =
               IF lastOp'.op = "setSegmentStart"
               THEN WithStartTime(segments, id, DragStart(segment, currentTime))
               ELSE WithEndTime(segments, id, DragEnd(segment, currentTime))
       ]_vars

\* C4: in both selectors the time computed from a pointer event on the
\* timeline is clamp(x - left, 0, width) / width * duration: it lies in
\* [0, duration], is exactly 0 for a pointer left of the timeline and exactly
\* duration for one right of it, and the move is acted on with that time
\* (the playhead is put there, the dragged boundary is set from it).
C4_PointerTime ==
    (lastOp.op \in {"handleMouseMove", "handleTimelineClick",
                    "handleTimelineMouseDown", "vssHandleMouseMove"}
     /\ lastOp.width > 0) =>
        LET x == lastOp.clientX
            w == lastOp.width
            t == lastOp.time
            found == FindIndex(segments, lastOp.id)
        IN  /\ t = (Max(0, Min(w, x)) * duration) \div w
            /\ 0 <= t /\ t <= duration
            /\ x <= 0 => t = 0
            /\ x >= w => t = duration
            /\ lastOp.op = "handleTimelineClick" =>
                  currentTime = t /\ video.currentTime = t
            /\ (lastOp.op = "handleMouseMove" /\ isDragging = PlayheadDrag) =>
                  currentTime = t /\ video.currentTime = t
            /\ (lastOp.op = "handleMouseMove" /\ lastOp.handle = "start" /\ found > 0) =>
                  segments[found].startTime = Max(0, Min(t, segments[found].endTime - 10))
            /\ (lastOp.op = "handleMouseMove" /\ lastOp.handle = "end" /\ found > 0) =>
                  segments[found].endTime = Min(duration, Max(t, segments[found].startTime + 10))
            /\ (lastOp.op \in {"handleTimelineMouseDown", "vssHandleMouseMove"}
                /\ lastOp.handle = "playhead") =>
                  vss.currentTime = t /\ vssVideo.currentTime = t
            /\ (lastOp.op = "vssHandleMouseMove" /\ lastOp.handle = "start") =>
                  vss.startTime = Min(t, vss.endTime - 10)
            /\ (lastOp.op = "vssHandleMouseMove" /\ lastOp.handle = "end") =>
                  vss.endTime = Max(t, vss.startTime + 10)

\* a playhead drag right of the timeline of MultiSegmentSelector puts the
\* playhead on the end of a 120 s video
C4_Witness ==
    /\ lastOp.op = "handleMouseMove"
    /\ isDragging = PlayheadDrag
    /\ lastOp.clientX > lastOp.width
    /\ duration = 1200
    /\ currentTime = 1200

\* C5: VideoSegmentSelector in segment mode and playing, range with
\* 0 <= start < end <= duration: when the element reports a position at or
\* past end, the position is reset to start and the state stays playing.
C5_LoopKeepsPlaying ==
    [][(lastOp'.op \in {"timeupdate", "ended"}
        /\ vss.useSegment /\ vss.isPlaying
        /\ 0 <= vss.startTime /\ vss.startTime < vss.endTime /\ vss.endTime <= duration
        /\ lastOp'.time >= vss.endTime) =>
        /\ vssVideo'.currentTime = vss.startTime
        /\ vss'.isPlaying
       ]_vars

\* C7: removing the segment whose id is the selection sets the selection to
\* null, removing another leaves the selection as it was; either way exactly
\* the segments with the given id go and the rest keep their order.
C7_Remove ==
    [][lastOp'.op = "removeSegment" =>
        LET id == lastOp'.id
        IN  /\ segments' = SelectSeq(segments, LAMBDA s : s.id # id)
            /\ selectedSegmentId = id => selectedSegmentId' = null
            /\ selectedSegmentId # id => selectedSegmentId' = selectedSegmentId
       ]_vars

\* the selected segment was removed and another segment is still there
C7_Witness ==
    /\ lastOp.op = "removeSegment"
    /\ selectedSegmentId = null
    /\ Len(segments) = 1
    /\ segments[1].id # lastOp.id

C6_RoundTrip ==
    [][(lastOp'.op = "loadVideo" /\ net.load = "ok" /\ net.force) =>
        Payload(segments') = net.payload
       ]_vars

\* C8: the colour Add gives the new segment is one of the palette; when all
\* eight colours are in use it is the entry at index (number of existing
\* segments mod 8), and otherwise it is a colour not in use.
C8_AddColor ==
    [][lastOp'.op = "addSegment" =>
        LET n == Len(segments)
            c == segments'[n + 1].color
        IN  /\ Len(segments') = n + 1
            /\ c \in Range(SEGMENT_COLORS)
            /\ Range(SEGMENT_COLORS) \subseteq Range(Colors(segments)) =>
                  c = SEGMENT_COLORS[(n % 8) + 1]
            /\ ~(Range(SEGMENT_COLORS) \subseteq Range(Colors(segments))) =>
                  c \notin Range(Colors(segments))
       ]_vars

\* a segment was added to a list of nine segments that had all eight colours
\* in use: it has the colour at index 9 mod 8
C8_Witness ==
    /\ lastOp.op = "addSegment"
    /\ Len(segments) = 10
    /\ Range(SEGMENT_COLORS) \subseteq Range(Colors(SubSeq(segments, 1, 9)))
    /\ segments[10].color = SEGMENT_COLORS[2]

\* the colours of the list are pairwise distinct
DistinctColors(segs) ==
    \A i, j \in 1..Len(segs) : segs[i].color = segs[j].color => i = j

\* the first colour of the palette, in palette order, that no segment has
FirstUnusedColor(segs) ==
    LET used == {segs[i].color : i \in 1..Len(segs)}
        k == CHOOSE k \in 1..Len(SEGMENT_COLORS) :
                /\ SEGMENT_COLORS[k] \notin used
                /\ \A j \in 1..(k - 1) : SEGMENT_COLORS[j] \in used
    IN  SEGMENT_COLORS[k]

\* C30: from an empty list or a list loaded from the backend, as long as the
\* list never holds more than 8 segments, every Add and Remove leaves the
\* colours of the list pairwise distinct, and each Add gives the new segment
\* the first colour of the palette, in palette order, that no segment has.
C30_DistinctColors ==
    /\ (Len(segments) <= 8 => DistinctColors(segments))
    /\ [][(DistinctColors(segments) /\ Len(segments') <= 8) =>
              DistinctColors(segments')]_vars
    /\ [][(lastOp'.op = "addSegment" /\ Len(segments') <= 8) =>
              /\ Len(segments') = Len(segments) + 1
              /\ segments'[Len(segments')].color = FirstUnusedColor(segments)]_vars

\* the third of eight loaded segments was removed and a segment was added:
\* the list holds eight segments again, and the new one has the third colour
C30_Witness ==
    /\ lastOp.op = "addSegment"
    /\ Len(segments) = 8
    /\ segments[8].color = SEGMENT_COLORS[3]
    /\ DistinctColors(segments)

\* C19: the segment Add appends is labelled `Segment N`, N the number of
\* segments in the list after the add, whatever was removed before.
C19_DefaultLabel ==
    [][lastOp'.op = "addSegment" =>
        /\ Len(segments') = Len(segments) + 1
        /\ segments'[Len(segments')].label = "Segment " \o ToString(Len(segments'))
       ]_vars

\* two segments were added, the first was removed, and a third was added:
\* it is the second of the list and is called `Segment 2`, as the other one is
C19_Witness ==
    /\ lastOp.op = "addSegment"
    /\ ops = 4
    /\ Len(segments) = 2
    /\ segments[1].color = SEGMENT_COLORS[2]
    /\ segments[1].label = "Segment 2"
    /\ segments[2].label = "Segment 2"

\* C20: the segments of the list carry pairwise distinct ids.
C20_DistinctIds ==
    \A i, j \in 1..Len(segments) :
        i # j => segments[i].id # segments[j].id

\* C21: right after Add the selected segment is the one just added, the last
\* element of the updated list, whatever was selected before.
C21_AddSelects ==
    [][lastOp'.op = "addSegment" =>
        /\ Len(segments') = Len(segments) + 1
        /\ selectedSegmentId' = segments'[Len(segments')].id
        /\ selectedSegmentId' = lastOp'.id
       ]_vars

\* the first segment was added and stayed selected; the second Add, under
\* another id, moved the selection to the second segment
C21_Witness ==
    /\ lastOp.op = "addSegment"
    /\ ops = 2
    /\ Len(segments) = 2
    /\ segments[1].id # segments[2].id
    /\ selectedSegmentId = segments[2].id

----------------------------------------------------------------------------
(* Claims checked under SpecPlayback *)

\* C11: playSegment assigns the segment's startTime to the element's
\* position, starts playback, sets the state to playing and selects the
\* segment.  After that nothing loops back: a timeupdate, also one at or past
\* the segment's endTime, neither seeks nor pauses; playback stops only by
\* togglePlay or at the end of the media, and only the seek handlers assign a
\* position.
C11_PlaySegment ==
    [][route = VideoDetailPage =>
        /\ lastOp'.op = "playSegment" =>
              \E i \in 1..Len(segments) :
                 /\ segments[i].id = lastOp'.id
                 /\ lastOp'.written = {segments[i].startTime}
                 /\ video'.currentTime = Max(0, segments[i].startTime)
                 /\ ~video'.paused
                 /\ isPlaying'
                 /\ selectedSegmentId' = segments[i].id
                 /\ segments' = segments
        /\ lastOp'.op = "timeupdate" =>
              /\ lastOp'.written = {}
              /\ video'.currentTime = lastOp'.time
              /\ video'.paused = video.paused
              /\ isPlaying' = isPlaying
        /\ (~video.paused /\ video'.paused) => lastOp'.op \in {"togglePlay", "ended"}
        /\ lastOp'.op = "ended" => video'.currentTime = duration
        /\ lastOp'.written # {} =>
              lastOp'.op \in {"playSegment", "handleTimelineClick", "handleMouseMove",
                              "jumpToStart", "jumpToEnd"}
       ]_vars

\* two segments were added, the first was played, and playback has gone past
\* its endTime: the element still plays, at the position it reported
C11_Witness ==
    /\ route = VideoDetailPage
    /\ ops = 4
    /\ lastOp.op = "timeupdate"
    /\ Len(segments) = 2
    /\ segments[1].id # segments[2].id
    /\ selectedSegmentId = segments[1].id
    /\ lastOp.time >= segments[1].endTime
    /\ video.currentTime = lastOp.time
    /\ ~video.paused
    /\ isPlaying

\* the playing/paused state of the selector on screen
Playing == IF route = VideoDetailPage THEN isPlaying ELSE vss.isPlaying

\* C13: in both selectors toggle flips the playing/paused state,
\* play-segment sets it to playing, the media's ended event sets it to
\* paused, every seek (timeline click, playhead drag, skip-to-start,
\* skip-to-end) leaves it as it was, and nothing else changes it.
C13_PlaybackStates ==
    [][/\ lastOp'.op = "togglePlay" => Playing' = ~Playing
       /\ lastOp'.op = "playSegment" => Playing'
       /\ lastOp'.op = "ended" => ~Playing'
       /\ lastOp'.op \in {"handleTimelineClick", "handleTimelineMouseDown",
                          "handleMouseMove", "vssHandleMouseMove",
                          "jumpToStart", "jumpToEnd"} => Playing' = Playing
       /\ Playing' # Playing => lastOp'.op \in {"togglePlay", "playSegment", "ended"}
      ]_vars

\* the playhead of MultiSegmentSelector was dragged during playback, which goes on
C13_Witness ==
    /\ route = VideoDetailPage
    /\ lastOp.op = "handleMouseMove"
    /\ isDragging = PlayheadDrag
    /\ lastOp.written = {video.currentTime}
    /\ isPlaying
    /\ ~video.paused

\* C18: every position a handler assigns to the media element lies in
\* [0, duration]; a playhead drag assigns exactly the computed pointer-time,
\* which the element takes, and changes no segment and no range.
C18_PlayheadRange ==
    [][/\ \A x \in lastOp'.written : 0 <= x /\ x <= duration
       /\ (lastOp'.op = "handleMouseMove" /\ isDragging = PlayheadDrag) =>
             /\ lastOp'.written = {lastOp'.time}
             /\ video'.currentTime = lastOp'.time
             /\ currentTime' = lastOp'.time
             /\ segments' = segments
       /\ (lastOp'.op = "vssHandleMouseMove" /\ vss.isDragging = "playhead") =>
             /\ lastOp'.written = {lastOp'.time}
             /\ vssVideo'.currentTime = lastOp'.time
             /\ vss'.currentTime = lastOp'.time
             /\ vss'.startTime = vss.startTime
             /\ vss'.endTime = vss.endTime
      ]_vars

\* C27: in both selectors, after toggle-play, play-segment, seeks (also to
\* the very end of the media), loop resets and ended events, the isPlaying
\* flag is true exactly when the media element is playing (not paused).
C27_PlayFlag ==
    /\ route = VideoDetailPage => (isPlaying <=> ~video.paused)
    /\ route = NewSopPage => (vss.isPlaying <=> ~vssVideo.paused)

\* playback went on after the playhead was put on the very end of the media,
\* and ended there: the flag and the element both say paused
C27_Witness ==
    /\ lastOp.op = "ended"
    /\ Playing = FALSE
    /\ IF route = VideoDetailPage
       THEN video = [currentTime |-> duration, paused |-> TRUE]
       ELSE vssVideo.paused /\ vss.currentTime = duration
    /\ duration = 1200

----------------------------------------------------------------------------
(* Claims checked under SpecVSS *)

\* C12 as stated: toggling play while paused, in segment mode with the
\* position outside [start, end), seeks to start and plays; with the
\* position inside [start, end), or segment mode off, it plays and the
\* position stays where it was.
C12_TogglePlayKeepsPosition ==
    [][(lastOp'.op = "togglePlay" /\ ~vss.isPlaying) =>
        LET pos == vssVideo.currentTime
            outside == vss.useSegment /\ (pos < vss.startTime \/ pos >= vss.endTime)
        IN  /\ ~vssVideo'.paused
            /\ vss'.isPlaying
            /\ outside => lastOp'.written = {vss.startTime}
            /\ ~outside => vssVideo'.currentTime = pos
       ]_vars

\* C12: toggling play while paused, in segment mode with the position
\* outside [start, end), assigns start to the element's position and plays;
\* with the position inside [start, end), or segment mode off, it assigns no
\* position and plays: from where the element is, or from 0 when the element
\* is at the end of the media.
C12_TogglePlay ==
    [][(lastOp'.op = "togglePlay" /\ ~vss.isPlaying) =>
        LET pos == vssVideo.currentTime
            outside == vss.useSegment /\ (pos < vss.startTime \/ pos >= vss.endTime)
        IN  /\ ~vssVideo'.paused
            /\ vss'.isPlaying
            /\ outside =>
                  /\ lastOp'.written = {vss.startTime}
                  /\ vssVideo'.currentTime = Max(0, vss.startTime)
            /\ ~outside =>
                  /\ lastOp'.written = {}
                  /\ vssVideo'.currentTime = IF pos >= duration THEN 0 ELSE pos
       ]_vars

\* segment mode is off and play was toggled with the element at the end of
\* the media: it plays from 0
C12_Witness ==
    /\ route = NewSopPage
    /\ lastOp.op = "togglePlay"
    /\ ~vss.useSegment
    /\ lastOp.time = duration
    /\ lastOp.written = {}
    /\ vssVideo.currentTime = 0
    /\ ~vssVideo.paused
    /\ vss.isPlaying

\* C17: the range of VideoSegmentSelector satisfies
\* 0 <= startTime < endTime <= duration and endTime - startTime >= 1 s, and
\* so does every pair the parent was told through onSegmentChange.
C17_RangeInvariant ==
    /\ 0 <= vss.startTime
    /\ vss.startTime < vss.endTime
    /\ vss.endTime <= duration
    /\ vss.endTime - vss.startTime >= MinSegmentLength
    /\ form.set =>
          /\ 0 <= form.startTime
          /\ form.startTime < form.endTime
          /\ form.endTime <= duration
          /\ form.endTime - form.startTime >= MinSegmentLength

----------------------------------------------------------------------------
(* Claims checked under SpecDrag *)

\* a drag target is set in the selector on screen
DragActive ==
    \/ route = VideoDetailPage /\ isDragging # NoDrag
    \/ route = NewSopPage /\ vss.isDragging # null

\* C14: window has the mousemove and mouseup listeners exactly while a drag
\* target is active in the mounted selector; pointer-up sets the drag target
\* to none; and whenever no listener is attached (after pointer-up, after
\* the selector was torn down during a drag) a pointer move changes no
\* segment, no range and no playhead.
C14_DragLifecycle ==
    /\ [](/\ windowListeners \in {{}, {"mousemove", "mouseup"}}
          /\ windowListeners # {} <=> DragActive)
    /\ [][/\ lastOp'.op \in {"handleMouseUp", "vssHandleMouseUp"} =>
                /\ ~DragActive'
                /\ windowListeners' = {}
          /\ lastOp'.op = "unmount" => windowListeners' = {}
          /\ (windowListeners = {}
              /\ lastOp'.op \in {"mousemove", "handleMouseMove", "vssHandleMouseMove"}) =>
                UNCHANGED <<segments, currentTime, video, vss, vssVideo, form>>
         ]_vars

\* in VideoSegmentSelector the start handle was dragged and released, and a
\* later pointer move found no listener
C14_Witness ==
    /\ route = NewSopPage
    /\ lastOp.op = "mousemove"
    /\ windowListeners = {}
    /\ vss.isDragging = null
    /\ vss.useSegment
    /\ vss.startTime > 0

\* the page was left during a drag of a segment handle of
\* MultiSegmentSelector, and a later pointer move found no listener
C14_WitnessTeardown ==
    /\ route = VideosPage
    /\ lastOp.op = "mousemove"
    /\ isDragging.kind = "handle"
    /\ windowListeners = {}

----------------------------------------------------------------------------
(* Claims checked under SpecEdit *)

\* C15: Add, Remove, Relabel, a handle drag-move and set-start/end-to-current
\* leave hasUnsavedChanges true, and so does every step of the editor that
\* changes the list; the playhead, selection, playback and label-input
\* operations leave the list and hasUnsavedChanges as they were; a save
\* request is sent by the Save action only.
C15_UnsavedFlag ==
    [][/\ lastOp'.op \in {"addSegment", "removeSegment", "saveLabel",
                          "setSegmentStart", "setSegmentEnd"} => hasUnsavedChanges'
       /\ (lastOp'.op = "handleMouseMove" /\ isDragging.kind = "handle"
           /\ FindIndex(segments, isDragging.segmentId) > 0) => hasUnsavedChanges'
       /\ (segments' # segments /\ lastOp'.op # "loadVideo") => hasUnsavedChanges'
       /\ (\/ lastOp'.op \in {"handleTimelineClick", "handlePlayheadMouseDown",
                              "handleSegmentHandleMouseDown", "handleMouseUp",
                              "togglePlay", "jumpToStart", "jumpToEnd", "playSegment",
                              "timeupdate", "ended", "setSelectedSegmentId",
                              "startEditingLabel", "setEditingLabelValue",
                              "cancelEditLabel"}
           \/ lastOp'.op = "handleMouseMove" /\ isDragging = PlayheadDrag) =>
             UNCHANGED <<segments, hasUnsavedChanges>>
       /\ (net'.save = "sent" /\ net.save # "sent") => lastOp'.op = "handleSaveSegments"
      ]_vars

\* the end handle of a segment of the loaded list was dragged: the list,
\* clean until then, has unsaved changes
C15_Witness ==
    /\ lastOp.op = "handleMouseMove"
    /\ lastOp.handle = "end"
    /\ ops = 2
    /\ Len(segments) = 1
    /\ segments[1].id = "srv1"
    /\ hasUnsavedChanges

\* C26: the selected segment id is null or the id of a segment of the list,
\* whatever the selector's operations and the page's replacements of the list.
C26_SelectionValid ==
    selectedSegmentId = null \/ selectedSegmentId \in SegmentIds(segments)

\* a segment update: a move of a dragged handle, set-start / set-end to the
\* playhead, or the saving of a label
IsSegmentUpdate(o) ==
    \/ o.op \in {"setSegmentStart", "setSegmentEnd", "saveLabel"}
    \/ o.op = "handleMouseMove" /\ o.handle \in {"start", "end"}

\* the field a segment update is aimed at
TargetField(o) ==
    IF o.op = "saveLabel" THEN "label"
    ELSE IF o.op = "setSegmentStart" \/ (o.op = "handleMouseMove" /\ o.handle = "start")
    THEN "startTime"
    ELSE "endTime"

\* new is old but for field f
SameButField(old, new, f) ==
    /\ DOMAIN new = DOMAIN old
    /\ \A g \in DOMAIN old \ {f} : new[g] = old[g]

\* C29: a handle drag-move, set-start / set-end to the playhead or relabel
\* addressed to segment X changes only the targeted field of X: X's other
\* fields, every other segment, the length and the order of the list are
\* unchanged; addressed to an id that is not in the list, a drag-move, a
\* set-boundary or a remove changes no segment.
C29_UpdateFrame ==
    /\ [](\A id \in (Ids \cup {null}) \ SegmentIds(segments) :
             /\ WithStartTime(segments, id, currentTime) = segments
             /\ WithEndTime(segments, id, currentTime) = segments
             /\ SelectSeq(segments, LAMBDA s : s.id # id) = segments)
    /\ [][IsSegmentUpdate(lastOp') /\ ops' = ops + 1 =>
             IF lastOp'.id \in SegmentIds(segments)
             THEN /\ Len(segments') = Len(segments)
                  /\ \E x \in 1..Len(segments) :
                        /\ segments[x].id = lastOp'.id
                        /\ SameButField(segments[x], segments'[x], TargetField(lastOp'))
                        /\ \A i \in 1..Len(segments) \ {x} : segments'[i] = segments[i]
             ELSE segments' = segments
         ]_vars

\* the frame of a segment update when the ids of the list are pairwise distinct
C29_UpdateFrameDistinctIds ==
    [][(/\ IsSegmentUpdate(lastOp')
        /\ ops' = ops + 1
        /\ \A i, j \in 1..Len(segments) : segments[i].id = segments[j].id => i = j) =>
             IF lastOp'.id \in SegmentIds(segments)
             THEN /\ Len(segments') = Len(segments)
                  /\ \E x \in 1..Len(segments) :
                        /\ segments[x].id = lastOp'.id
                        /\ SameButField(segments[x], segments'[x], TargetField(lastOp'))
                        /\ \A i \in 1..Len(segments) \ {x} : segments'[i] = segments[i]
             ELSE segments' = segments
      ]_vars

----------------------------------------------------------------------------
(* Claims checked under SpecPage *)

\* C16: when the save request fails, the segment list stays as it is,
\* hasUnsavedChanges stays true, saving goes back to false, and the page goes
\* on showing the editor and its Save button.
C16_FailedSave ==
    [][(lastOp'.op = "saveSegmentsSettled" /\ net.save = "failed") =>
        /\ segments' = segments
        /\ hasUnsavedChanges'
        /\ ~saving'
        /\ EditorShown'
       ]_vars

\* C22: a change made to the list while a save request or the reload after it
\* is in flight is not lost: the reload leaves a list with unsaved changes
\* alone, and a save that was answered for an older list does not mark the
\* list saved.
C22_NoLostEdits ==
    [][/\ (lastOp'.op = "saveSegmentsSettled" /\ net.save = "ok"
             /\ Payload(segments) # net.payload)
          => hasUnsavedChanges'
       /\ (lastOp'.op = "loadVideo" /\ net.load = "ok" /\ net.force
             /\ hasUnsavedChanges)
          => (segments' = segments /\ hasUnsavedChanges')
      ]_vars
----------------------------------------------------------------------------
(* Claims checked under SpecPoll *)

\* C23: once the initial load has completed, the response to a loadVideo()
\* of the polling interval or of Process/Retry, whenever it arrives, leaves
\* the local segment list and hasUnsavedChanges as they are; the list is
\* replaced and the flag reset only by the initial load and by the save with
\* its reload (and the list is changed by the user's edits).
C23_PollingKeepsSegments ==
    [][/\ (lastOp'.op = "loadVideo()" /\ initialSegmentsLoaded)
          => (segments' = segments /\ hasUnsavedChanges' = hasUnsavedChanges)
       /\ (segments' # segments \/ (hasUnsavedChanges /\ ~hasUnsavedChanges'))
          => \/ lastOp'.op \in {"addSegment", "removeSegment"}
             \/ lastOp'.op \in {"saveSegmentsSettled", "loadVideo"}
             \/ lastOp'.op = "loadVideo()" /\ lastOp'.handle = "mount"
      ]_vars

\* polling has stopped, the user has added a segment, and then the response
\* to a call of the interval arrived: the segment and the flag are still there
C23_Witness ==
    /\ lastOp.op = "loadVideo()"
    /\ lastOp.handle = "interval"
    /\ interval = {}
    /\ status = "processed"
    /\ hasUnsavedChanges
    /\ \E i \in 1..Len(segments) : segments[i].id \in Ids
----------------------------------------------------------------------------
(* Claims checked under SpecVideo *)

\* C24: when the selected video changes, the page's startTime and endTime are
\* null once the effects have settled, whatever range and segment mode the
\* selector had for the video before.
C24_VideoChangeResetsTimes ==
    [][lastOp'.op = "setSelectedVideoId" => form' = NoTimes]_vars

\* C25: after the change to another video, of larger or smaller duration, in
\* segment mode, the selector's range satisfies
\* 0 <= startTime < endTime <= duration (the new one), and so do the times
\* the page would send as start_time and end_time.
C25_RangeAfterVideoChange ==
    [][(lastOp'.op = "setSelectedVideoId" /\ vss'.useSegment) =>
        /\ 0 <= vss'.startTime
        /\ vss'.startTime < vss'.endTime
        /\ vss'.endTime <= duration'
        /\ form'.set =>
              /\ 0 <= form'.startTime
              /\ form'.startTime < form'.endTime
              /\ form'.endTime <= duration'
       ]_vars
----------------------------------------------------------------------------
(* Claims checked under SpecSop *)

\* the requests a run over queue s1..sn issues, in order:
\* create(s1), generate(sop1), create(s2), generate(sop2), ...
ExpectedRequest(queue, k) ==
    IF k % 2 = 1 THEN [api |-> "create", sop |-> 0, title |-> queue[(k + 1) \div 2].label,
                       start_time |-> queue[(k + 1) \div 2].startTime,
                       end_time |-> queue[(k + 1) \div 2].endTime]
    ELSE [api |-> "generate", sop |-> k \div 2, title |-> "", start_time |-> 0,
          end_time |-> 0]

RunsInFlight == {r \in 1..Len(sop.runs) : sop.runs[r].state = "running"}

\* C28: a creation run over the list s1..sn issues create(s1), generate(sop1),
\* create(s2), generate(sop2), ... one at a time, each after the one before
\* succeeded, each create with its segment's label, startTime and endTime;
\* after the first failed request the run issues nothing more and the
\* creating flag is reset; at most one run is in flight at any time.
C28_CreateAllOrdering ==
    /\ [](/\ Cardinality(RunsInFlight) <= 1
          /\ \A r \in 1..Len(sop.runs) :
                LET run == sop.runs[r]
                IN  /\ Len(run.requests) <= 2 * Len(run.queue)
                    /\ \A k \in 1..Len(run.requests) :
                          run.requests[k] = ExpectedRequest(run.queue, k)
                    /\ run.state = "running" =>
                          /\ sop.creatingSOPs
                          /\ run.pending = run.requests[Len(run.requests)].api
                    /\ run.state = "done" => Len(run.requests) = 2 * Len(run.queue))
    /\ [][/\ \A r \in 1..Len(sop.runs) :
                LET run == sop.runs[r]
                IN  /\ sop'.runs[r].queue = run.queue
                    /\ sop'.runs[r].requests # run.requests =>
                          /\ lastOp'.op = "sopsApi"
                          /\ lastOp'.handle = "ok"
                          /\ lastOp'.id = ToString(r)
                          /\ Len(sop'.runs[r].requests) = Len(run.requests) + 1
                          /\ SubSeq(sop'.runs[r].requests, 1, Len(run.requests))
                                = run.requests
                    /\ run.state = "failed" => sop'.runs[r] = run
          /\ Len(sop'.runs) > Len(sop.runs) =>
                /\ lastOp'.op \in {"handleCreateSOP", "handleCreateFromVideo"}
                /\ Len(sop'.runs) = Len(sop.runs) + 1
                /\ sop'.runs[Len(sop'.runs)].all =>
                      sop'.runs[Len(sop'.runs)].queue = segments
          /\ (lastOp'.op = "sopsApi" /\ lastOp'.handle = "failed") =>
                /\ ~sop'.creatingSOPs
                /\ \A r \in 1..Len(sop.runs) :
                      sop'.runs[r].requests = sop.runs[r].requests
         ]_vars

\* a run over two segments with different times has issued its four requests
\* and ended
C28_Witness ==
    \E r \in 1..Len(sop.runs) :
        LET run == sop.runs[r]
        IN  /\ run.all
            /\ run.state = "done"
            /\ Len(run.queue) = 2
            /\ run.queue[1].startTime # run.queue[2].startTime
            /\ Len(run.requests) = 4
            /\ route = SopsPage

\* the second request of a run failed: the run has issued create and
\* generate for the first segment only, and the flag is reset
C28_WitnessFailure ==
    /\ lastOp.op = "sopsApi"
    /\ lastOp.handle = "failed"
    /\ \E r \in 1..Len(sop.runs) :
          /\ sop.runs[r].state = "failed"
          /\ Len(sop.runs[r].queue) = 2
          /\ Len(sop.runs[r].requests) = 2
    /\ ~sop.creatingSOPs

====
